---- MODULE Spec2Model ----
(***************************************************************************)
(* A model of the SAT solvers of the repository: the DIMACS front end of   *)
(* every solver, the resolution solver (resolution.py), the Davis-Putnam   *)
(* solver (dp.py), the DPLL solver (dpll.py) and the CDCL solver (cdcl.py).*)
(* One DIMACS text is drawn at the start; the four solvers parse and solve *)
(* it one after the other, so that their verdicts can be compared.         *)
(* The Sudoku side is modelled as well: the solver classes CDCL            *)
(* (sudoku_dpll.py), DPLL (sudoku_resolution.py) and DavisPutnam           *)
(* (sudoku_dp.py), fed by add_clause with the clauses of the text, and     *)
(* encode_sudoku with the loop that rebuilds the grid from the assignment. *)
(* Spec runs the DIMACS solvers, SpecAll runs the four of them in          *)
(* sequence, SpecSudoku runs the three Sudoku solver classes, SpecGrid     *)
(* encodes a puzzle and rebuilds its solution, SpecParse parses texts      *)
(* with a line that lacks its terminator. cdcl() never gets a conflict     *)
(* from unit_propagation, so four specifications put a caller beside the   *)
(* CDCL solver: SpecConflict hands a falsified clause to analyze_conflict  *)
(* or to the conflict branch of cdcl(), SpecWatch does so on texts with    *)
(* longer clauses, SpecBacktrack calls backtrack and SpecEnqueue calls     *)
(* assign between the iterations of cdcl(). SpecRestart runs the conflict  *)
(* branch up to its restarts. SpecSudokuCaller puts a caller beside the    *)
(* class CDCL of the Sudoku side, which adds a clause to the solver that   *)
(* has returned, solves again and calls backtrack. SpecCdclRun and         *)
(* SpecDpRun are the runs of the CDCL and of the Davis-Putnam solver with  *)
(* the fairness of their loops, for the termination of cdcl() and solve(). *)
(***************************************************************************)
EXTENDS Integers, Sequences, FiniteSets, TLC

(* ------------------------------------------------------------------ *)
(* Bounds of the model                                                  *)
(* ------------------------------------------------------------------ *)
NumVars == 2
MaxClauseLen == 2
MaxClauses == 3
(* How many times solve() is called on one solver instance.             *)
MaxSolveCalls == 2
(* The side of the largest Sudoku grid, and how many cells of a puzzle  *)
(* are filled in.                                                       *)
MaxN == 4
MaxFilled == 2
(* How many clauses a caller adds to a Sudoku solver that has returned. *)
MaxLateClauses == 1

(* ------------------------------------------------------------------ *)
(* Literals, clauses, DIMACS text                                       *)
(* ------------------------------------------------------------------ *)
Vars == 1..NumVars
Lits == {l \in (0 - NumVars)..NumVars : l # 0}
Abs(l) == IF l < 0 THEN 0 - l ELSE l
NONE == "None"

Range(s) == {s[i] : i \in DOMAIN s}

(* Rank of a token: 0 for the terminator, then 1, -1, 2, -2, ... *)
TokRank(t) == IF t = 0 THEN 0 ELSE 2 * Abs(t) - (IF t > 0 THEN 1 ELSE 0)
TokBase == 2 * NumVars + 2

RECURSIVE LineKey(_)
LineKey(line) ==
    IF line = <<>> THEN 0
    ELSE LineKey(SubSeq(line, 1, Len(line) - 1)) * TokBase
         + (TokRank(line[Len(line)]) + 1)

(* The literal sequences of the clause lines: 0 to MaxClauseLen literals  *)
(* over distinct variables, in increasing variable order.                 *)
ClauseBodies ==
    {c \in UNION {[1..n -> Lits] : n \in 0..MaxClauseLen} :
        \A i \in 1..(Len(c) - 1) : Abs(c[i]) < Abs(c[i + 1])}

(* A clause line is its literals followed by the terminating 0; the line  *)
(* that holds only the 0 is the DIMACS form of the empty clause.          *)
ClauseLines == {Append(c, 0) : c \in ClauseBodies}
EmptyClauseLine == <<0>>

(* The texts of exactly n lines, the lines distinct and in increasing   *)
(* order of LineKey (shorter lines first).                              *)
RECURSIVE TextsOfLen(_)
TextsOfLen(n) ==
    IF n = 0 THEN {<<>>}
    ELSE UNION {{Append(t, l) : l \in {k \in ClauseLines :
                                          n = 1 \/ LineKey(t[n - 1]) < LineKey(k)}} :
                t \in TextsOfLen(n - 1)}

Texts == UNION {TextsOfLen(n) : n \in 0..MaxClauses}

(* parse_dimacs, one line: every token but the last, zeros skipped.      *)
ParseLine(line) ==
    LET toks == SubSeq(line, 1, Len(line) - 1)
    IN  SelectSeq(toks, LAMBDA t : t # 0)

(* parse_dimacs, the clause list: the non-empty clauses in line order.   *)
RECURSIVE ParseClauses(_)
ParseClauses(text) ==
    IF text = <<>> THEN <<>>
    ELSE LET rest == ParseClauses(SubSeq(text, 1, Len(text) - 1))
             c == ParseLine(text[Len(text)])
         IN  IF c # <<>> THEN Append(rest, c) ELSE rest

ParseVariables(text) ==
    {Abs(t) : t \in UNION {Range(ParseLine(text[i])) : i \in DOMAIN text}}

(* ------------------------------------------------------------------ *)
(* Reference semantics                                                  *)
(* ------------------------------------------------------------------ *)
Valuations == [Vars -> BOOLEAN]
LitTrue(m, l) == m[Abs(l)] = (l > 0)
(* cls: a set of clauses, each a set of literals *)
Models(cls) == {m \in Valuations : \A c \in cls : \E l \in c : LitTrue(m, l)}
Satisfiable(cls) == Models(cls) # {}
ClauseSets(clauseSeq) == {Range(clauseSeq[i]) : i \in DOMAIN clauseSeq}

VARIABLES
    text,          \* the DIMACS text handed to every solver, a sequence of lines
    resPc,         \* resolution_solver: "idle", "loop" or "done"
    resInput,      \* the clause set resolution_solver was called with
    resClauses,    \* resolution_solver: its local set `clauses`
    resResult,     \* resolution_solver: the value returned, NONE before
    dpPc,          \* dp.Solver: "idle", "loop" or "done"
    dpClauses,     \* dp.Solver.clauses, a list of tuples
    dpVariables,   \* dp.Solver.variables
    dpAssignment,  \* dp.Solver.assignment, a dict var -> bool
    dpPureLits,    \* dp.Solver.pure_lits
    dpResult,      \* dp.Solver.solve: the verdict returned, read when dpPc is "done"
    dpReturned,    \* the verdicts the calls of dp.Solver.solve returned, in order
    dpllPc,        \* DPLLSolver: "idle", "parsed", "prop", "ret" or "done"
    dpllClauses,   \* DPLLSolver.clauses, a list of tuples
    dpllVariables, \* DPLLSolver.variables
    dpllAssignment,   \* DPLLSolver.assignment, a dict var -> bool
    dpllUnitClauses,  \* DPLLSolver.unit_clauses, a set of literals
    dpllWatchList,    \* DPLLSolver.watch_list: literal -> list of clause indices
    dpllOccurrences,  \* DPLLSolver.occurrences: literal -> count (0: no key)
    dpllStack,     \* the active calls of dpll() below the running one:
                   \* the decision variable and the branch being tried
    dpllRet,       \* the value the last finished call of dpll() returned
    dpllResult,    \* DPLLSolver.solve: the verdict returned, NONE before
    dpllReturned,  \* the verdicts the calls of DPLLSolver.solve returned, in order
    cdclPc,        \* CDCLSolver: "idle", "loop", "done", or "raised" / "hung"
                   \* when cdcl() ends in an exception / does not come back;
                   \* "analysed" / "assigned" after a caller's call of
                   \* analyze_conflict / assign, which ends the run
    cdclClauses,   \* CDCLSolver.clauses, a list of tuples
    cdclVariables, \* CDCLSolver.variables
    cdclAssignment,   \* CDCLSolver.assignment, a dict literal -> True:
                      \* the list of its keys in insertion order
    cdclDecisionLevel,  \* CDCLSolver.decision_level
    cdclVarInfo,   \* CDCLSolver.var_info: var -> <<level, antecedent>>
    cdclWatchList, \* CDCLSolver.watch_list: literal -> list of clause indices
    cdclLearnedClauses, \* CDCLSolver.learned_clauses
    cdclTrail,     \* CDCLSolver.trail
    cdclTrailLim,  \* CDCLSolver.trail_lim
    cdclConflictCount,     \* CDCLSolver.conflict_count
    cdclRestartThreshold,  \* CDCLSolver.restart_threshold, a fraction <<n, d>>
    cdclVarActivity,       \* CDCLSolver.var_activity: var -> fraction <<n, d>>
    cdclVarOrder,  \* CDCLSolver.var_order
    cdclResult,    \* CDCLSolver.cdcl: the verdict returned, read when cdclPc is "done"
    cdclReturned,  \* the verdicts the calls of CDCLSolver.solve returned, in order
    cdclAnalysis,  \* a call of analyze_conflict and backtrack made on the
                   \* instance: <<>> before, else the clause handed over, the
                   \* trail at the call, the UIP chosen and what was returned
    cdclCall       \* the call made on the instance by the step just taken,
                   \* with the fields as they were before it; <<>> when the
                   \* step was an iteration of cdcl() or no step was taken

resVars == <<resPc, resInput, resClauses, resResult>>
dpVars == <<dpPc, dpClauses, dpVariables, dpAssignment, dpPureLits, dpResult, dpReturned>>
dpllVars == <<dpllPc, dpllClauses, dpllVariables, dpllAssignment, dpllUnitClauses,
              dpllWatchList, dpllOccurrences, dpllStack, dpllRet, dpllResult, dpllReturned>>
cdclVars == <<cdclPc, cdclClauses, cdclVariables, cdclAssignment, cdclDecisionLevel,
              cdclVarInfo, cdclWatchList, cdclLearnedClauses, cdclTrail, cdclTrailLim,
              cdclConflictCount, cdclRestartThreshold, cdclVarActivity, cdclVarOrder,
              cdclResult, cdclReturned, cdclAnalysis, cdclCall>>

(* The solver classes of the Sudoku scripts. Each is given its clauses  *)
(* by calls of add_clause, here one call per line of the text.          *)
VARIABLES
    scdclPc,          \* sudoku_dpll.CDCL: "idle", "for", "done" or "backtracked"
    scdclSite,        \* which call of unit_propagate in solve() is running
    scdclPending,     \* unit_propagate: the clauses of unit_clauses not visited yet
    scdclChanged,     \* unit_propagate: changed
    scdclClauses,     \* CDCL.clauses, a set of frozensets
    scdclVariables,   \* CDCL.variables
    scdclAssignments, \* CDCL.assignments: var -> [value, level, antecedent]
    scdclDecisionLevel,    \* CDCL.decision_level
    scdclLearnedClauses,   \* CDCL.learned_clauses
    scdclVariableActivity, \* CDCL.variable_activity: var -> fraction <<n, d>>
    scdclResult,      \* CDCL.solve: the value returned, NONE before
    scdclLate         \* the clauses handed to add_clause after solve() returned

scdclVars == <<scdclPc, scdclSite, scdclPending, scdclChanged, scdclClauses,
               scdclVariables, scdclAssignments, scdclDecisionLevel,
               scdclLearnedClauses, scdclVariableActivity, scdclResult,
               scdclLate>>

VARIABLES
    sdpllPc,          \* sudoku_resolution.DPLL: "idle", "for", "ret" or "done"
    sdpllPending,     \* unit_propagate: the clauses of unit_clauses not visited yet
    sdpllChanged,     \* unit_propagate: changed
    sdpllClauses,     \* DPLL.clauses, a set of frozensets
    sdpllVariables,   \* DPLL.variables
    sdpllAssignments, \* DPLL.assignments: var -> bool
    sdpllStack,       \* the active calls of solve() below the running one:
                      \* literal, old_clauses and the branch being tried, with
                      \* the keys self.assignments had before the decision
    sdpllRet,         \* the value the last finished call of solve() returned
    sdpllResult       \* DPLL.solve, the outermost call: the value returned

sdpllVars == <<sdpllPc, sdpllPending, sdpllChanged, sdpllClauses, sdpllVariables,
               sdpllAssignments, sdpllStack, sdpllRet, sdpllResult>>

VARIABLES
    sdpPc,            \* sudoku_dp.DavisPutnam: "idle", "for", "ret" or "done"
    sdpPending,       \* unit_propagate: the clauses of unit_clauses not visited yet
    sdpChanged,       \* unit_propagate: changed
    sdpClauses,       \* clauses of the instance whose solve() is running
    sdpVariables,     \* DavisPutnam.variables
    sdpAssignments,   \* assignments of the instance whose solve() is running
    sdpStack,         \* the instances whose solve() waits for a copy's solve():
                      \* their clauses and assignments, var and the branch tried
    sdpRet,           \* the value the last finished call of solve() returned
    sdpResult         \* DavisPutnam.solve, the outermost call: the value returned

sdpVars == <<sdpPc, sdpPending, sdpChanged, sdpClauses, sdpVariables,
             sdpAssignments, sdpStack, sdpRet, sdpResult>>

sudokuVars == <<scdclVars, sdpllVars, sdpVars>>

(* encode_sudoku and solve_sudoku_* of the Sudoku scripts.              *)
VARIABLES
    encPc,            \* "idle", "encoded" or "solved"
    sudokuGrid,       \* sudoku_grid, a list of rows; 0 is a blank cell
    encClauses,       \* the clauses of the solver encode_sudoku returns
    encAssignments,   \* the assignments of that solver after solve(): var -> bool
    solution          \* the grid solve_sudoku_* returns

encVars == <<encPc, sudokuGrid, encClauses, encAssignments, solution>>
dimacsVars == <<resVars, dpVars, dpllVars, cdclVars>>

(* Helpers on dicts (functions with a finite domain) and lists.         *)
EmptyDict == [v \in {} |-> TRUE]
DictSet(d, k, v) == [x \in (DOMAIN d) \cup {k} |-> IF x = k THEN v ELSE d[x]]
DictDel(d, k) == [x \in (DOMAIN d) \ {k} |-> d[x]]
InSeq(x, s) == \E i \in DOMAIN s : s[i] = x
SetMin(S) == CHOOSE x \in S : \A y \in S : x <= y
SetMax(S) == CHOOSE x \in S : \A y \in S : x >= y

RECURSIVE SortedSeq(_)
SortedSeq(S) == IF S = {} THEN <<>> ELSE <<SetMin(S)>> \o SortedSeq(S \ {SetMin(S)})

(* The orders in which a loop over a set of variables visits them. The  *)
(* interpreter keeps a small non-negative integer in the slot of its    *)
(* own value, so the variables of these sets are visited in increasing  *)
(* order.                                                               *)
IterationOrders(S) == {SortedSeq(S)}

(* The elements that can be the first one, outside the set skip, that a *)
(* loop over the set meets.                                             *)
FirstOf(S, skip) ==
    {SelectSeq(o, LAMBDA x : x \notin skip)[1] :
        o \in {p \in IterationOrders(S) : Range(p) \ skip # {}}}

(* Two watched literals per clause: clause i of the list (numbered from *)
(* first, as enumerate does) is appended to the list of its first       *)
(* literal and, when it has one, of its second literal.                 *)
RECURSIVE InitWatchList(_, _, _, _)
InitWatchList(clauses, i, first, w) ==
    IF i > Len(clauses) THEN w
    ELSE LET clause == clauses[i]
             idx == first + i - 1
             w1 == IF Len(clause) > 0
                   THEN [w EXCEPT ![clause[1]] = Append(@, idx)]
                   ELSE w
             w2 == IF Len(clause) > 1
                   THEN [w1 EXCEPT ![clause[2]] = Append(@, idx)]
                   ELSE w1
         IN  InitWatchList(clauses, i + 1, first, w2)

(* ------------------------------------------------------------------ *)
(* resolution.py                                                        *)
(* ------------------------------------------------------------------ *)
(* A Literal(name, negated) is modelled by the signed integer it was    *)
(* parsed from; a Clause by its frozenset of literals.                  *)
Negate(l) == 0 - l

IsEmpty(c) == Cardinality(c) = 0

IsTautology(c) == \E l1 \in c, l2 \in c : Abs(l1) = Abs(l2) /\ (l1 < 0) # (l2 < 0)

(* A faulty resolve, kept to show what C6 rules out: the resolvent      *)
(* keeps the literal of the second clause it was resolved on.           *)
ResolveKeepingSecond(c1, c2) ==
    {r \in {(c1 \ {l1}) \cup c2 :
                <<l1, l2>> \in {p \in c1 \X c2 :
                                   Abs(p[1]) = Abs(p[2]) /\ (p[1] < 0) # (p[2] < 0)}} :
        ~IsTautology(r)}

(* Clause.resolve *)
Resolve(c1, c2) ==
    {r \in {(c1 \ {l1}) \cup (c2 \ {l2}) :
                <<l1, l2>> \in {p \in c1 \X c2 :
                                   Abs(p[1]) = Abs(p[2]) /\ (p[1] < 0) # (p[2] < 0)}} :
        ~IsTautology(r)}

(* The clause list parse_dimacs of resolution.py returns, as a set.     *)
ResParseDimacs(t) ==
    {Range(ParseLine(t[i])) : i \in {j \in DOMAIN t : ParseLine(t[j]) # <<>>}}

(* The clause list of a caller that builds one Clause per line itself,  *)
(* Clause([]) for a line without literals.                              *)
ResDirectClauses(t) == {Range(ParseLine(t[i])) : i \in DOMAIN t}

(* All resolvents of all pairs of the set: one pass of the for loop.    *)
RoundResolvents(clauses) ==
    UNION {Resolve(c1, c2) : <<c1, c2>> \in {p \in clauses \X clauses : p[1] # p[2]}}

(* resolution_solver up to the loop: tautologies dropped, list -> set.  *)
ResStart(direct) ==
    /\ resPc = "idle"
    /\ resInput' = IF direct THEN ResDirectClauses(text) ELSE ResParseDimacs(text)
    /\ resClauses' = {c \in resInput' : ~IsTautology(c)}
    /\ resPc' = "loop"
    /\ UNCHANGED resResult
    /\ UNCHANGED <<text, encVars, sudokuVars, dpVars, dpllVars, cdclVars>>

(* One iteration of `while True`.                                       *)
ResRound ==
    /\ resPc = "loop"
    /\ LET new == RoundResolvents(resClauses)
       IN  IF \E r \in new : IsEmpty(r)
           THEN /\ resResult' = FALSE
                /\ resPc' = "done"
                /\ UNCHANGED resClauses
           ELSE IF new \subseteq resClauses
           THEN /\ resResult' = TRUE
                /\ resPc' = "done"
                /\ UNCHANGED resClauses
           ELSE /\ resClauses' = resClauses \cup new
                /\ UNCHANGED <<resPc, resResult>>
    /\ UNCHANGED resInput
    /\ UNCHANGED <<text, encVars, sudokuVars, dpVars, dpllVars, cdclVars>>

(* ------------------------------------------------------------------ *)
(* dp.py                                                                *)
(* ------------------------------------------------------------------ *)
(* Solver.parse_dimacs, called by the main script before solve.         *)
DpParseDimacs ==
    /\ dpPc = "idle"
    /\ dpClauses' = ParseClauses(text)
    /\ dpVariables' = ParseVariables(text)
    /\ dpPc' = "loop"
    /\ UNCHANGED <<dpAssignment, dpPureLits, dpResult, dpReturned>>
    /\ UNCHANGED <<text, encVars, sudokuVars, resVars, dpllVars, cdclVars>>

(* The first pass of unit_propagation: each unit literal whose variable *)
(* is unassigned is assigned; an assigned variable is left as it is.    *)
RECURSIVE DpAssignUnits(_, _)
DpAssignUnits(units, a) ==
    IF units = <<>> THEN a
    ELSE LET lit == Head(units)
             var == Abs(lit)
         IN  IF var \in DOMAIN a
             THEN DpAssignUnits(Tail(units), a)
             ELSE DpAssignUnits(Tail(units), DictSet(a, var, lit > 0))

DpLitSatisfied(a, lit) ==
    Abs(lit) \in DOMAIN a /\ ((lit > 0 /\ a[Abs(lit)]) \/ (lit < 0 /\ ~a[Abs(lit)]))

(* The second pass: satisfied clauses dropped, assigned literals cut.   *)
RECURSIVE DpSimplify(_, _)
DpSimplify(clauses, a) ==
    IF clauses = <<>> THEN <<>>
    ELSE LET clause == Head(clauses)
             rest == DpSimplify(Tail(clauses), a)
         IN  IF \E i \in DOMAIN clause : DpLitSatisfied(a, clause[i])
             THEN rest
             ELSE <<SelectSeq(clause, LAMBDA lit : Abs(lit) \notin DOMAIN a)>> \o rest

(* Solver.unit_propagation: [changed, clauses, assignment].             *)
DpUnitPropagation(clauses, a) ==
    LET unit_clauses == SelectSeq(clauses, LAMBDA c : Len(c) = 1)
        units == [i \in DOMAIN unit_clauses |-> unit_clauses[i][1]]
        a2 == DpAssignUnits(units, a)
    IN  IF a2 = a
        THEN [changed |-> FALSE, clauses |-> clauses, assignment |-> a]
        ELSE [changed |-> TRUE, clauses |-> DpSimplify(clauses, a2), assignment |-> a2]

(* A faulty contradiction_found, kept to show what C10 rules out: it   *)
(* answers that a clause is empty when the clause list is.              *)
DpNoClauseLeft(clauses) == clauses = <<>>

(* Solver.contradiction_found *)
DpContradictionFound(clauses) == \E i \in DOMAIN clauses : clauses[i] = <<>>

(* solve, step 1: `while changed` around unit_propagation, left at the  *)
(* first contradiction.                                                 *)
RECURSIVE DpPropagateLoop(_, _)
DpPropagateLoop(clauses, a) ==
    LET r == DpUnitPropagation(clauses, a)
    IN  IF DpContradictionFound(r.clauses)
        THEN [contradiction |-> TRUE, clauses |-> r.clauses, assignment |-> r.assignment]
        ELSE IF r.changed
        THEN DpPropagateLoop(r.clauses, r.assignment)
        ELSE [contradiction |-> FALSE, clauses |-> r.clauses, assignment |-> r.assignment]

(* Solver.find_pure_literals *)
DpFindPureLiterals(clauses) ==
    LET occurring == UNION {Range(clauses[i]) : i \in DOMAIN clauses}
    IN  {lit \in occurring : Negate(lit) \notin occurring}

(* The pure literals applied without the discard of their variables.    *)
DpApplyPureLiteralsKeepVariables(clauses, variables, a, pure_lits) ==
    LET pure_vars == {Abs(lit) : lit \in pure_lits}
    IN  [clauses |-> SelectSeq(clauses,
                        LAMBDA c : \A i \in DOMAIN c : Abs(c[i]) \notin pure_vars),
         variables |-> variables,
         assignment |-> [v \in (DOMAIN a) \cup pure_vars |->
                            IF v \in pure_vars THEN v \in pure_lits ELSE a[v]]]

(* Solver.apply_pure_literals: [clauses, variables, assignment].        *)
DpApplyPureLiterals(clauses, variables, a, pure_lits) ==
    LET pure_vars == {Abs(lit) : lit \in pure_lits}
    IN  [clauses |-> SelectSeq(clauses,
                        LAMBDA c : \A i \in DOMAIN c : Abs(c[i]) \notin pure_vars),
         variables |-> variables \ pure_vars,
         assignment |-> [v \in (DOMAIN a) \cup pure_vars |->
                            IF v \in pure_vars THEN v \in pure_lits ELSE a[v]]]

(* The resolvent of one positive and one negative clause: the literals  *)
(* on other variables, without repetition, sorted.                      *)
DpResolvent(pc, nc, var) ==
    SortedSeq({lit \in Range(pc) \cup Range(nc) : Abs(lit) # var})

(* The list of distinct resolvents, in order of first production.       *)
RECURSIVE DpDistinct(_)
DpDistinct(s) ==
    IF s = <<>> THEN <<>>
    ELSE LET front == SubSeq(s, 1, Len(s) - 1)
             last == s[Len(s)]
         IN  IF InSeq(last, front) THEN DpDistinct(front)
             ELSE Append(DpDistinct(front), last)

(* Solver.apply_variable_elimination: the new clause list.              *)
DpVariableElimination(clauses, var) ==
    LET pos_clauses == SelectSeq(clauses, LAMBDA c : InSeq(var, c))
        neg_clauses == SelectSeq(clauses, LAMBDA c : InSeq(Negate(var), c))
        np == Len(pos_clauses)
        nn == Len(neg_clauses)
        all == [k \in 1..(np * nn) |->
                  DpResolvent(pos_clauses[((k - 1) \div nn) + 1],
                              neg_clauses[((k - 1) % nn) + 1], var)]
        others == SelectSeq(clauses,
                      LAMBDA c : ~InSeq(var, c) /\ ~InSeq(Negate(var), c))
    IN  DpDistinct(all) \o others

(* One pass of the outer `while True` of solve, by the way it ends.     *)
(* The pass ends in `return False`: a contradiction after propagation.  *)
DpPassContradiction ==
    /\ dpPc = "loop"
    /\ LET p == DpPropagateLoop(dpClauses, dpAssignment)
       IN  /\ p.contradiction
           /\ dpClauses' = p.clauses
           /\ dpAssignment' = p.assignment
    /\ dpResult' = FALSE
    /\ dpReturned' = Append(dpReturned, FALSE)
    /\ dpPc' = "done"
    /\ UNCHANGED <<dpVariables, dpPureLits>>
    /\ UNCHANGED <<text, encVars, sudokuVars, resVars, dpllVars, cdclVars>>

(* The pass ends in `continue`: pure literals were found and applied.   *)
DpPassPureLiterals ==
    /\ dpPc = "loop"
    /\ LET p == DpPropagateLoop(dpClauses, dpAssignment)
           pure == DpFindPureLiterals(p.clauses)
           q == DpApplyPureLiterals(p.clauses, dpVariables, p.assignment, pure)
       IN  /\ ~p.contradiction
           /\ pure # {}
           /\ dpClauses' = q.clauses
           /\ dpVariables' = q.variables
           /\ dpAssignment' = q.assignment
    /\ dpPureLits' = {}
    /\ UNCHANGED <<dpPc, dpResult, dpReturned>>
    /\ UNCHANGED <<text, encVars, sudokuVars, resVars, dpllVars, cdclVars>>

(* The pass ends in `return True`: no variable is left.                 *)
DpPassSat ==
    /\ dpPc = "loop"
    /\ LET p == DpPropagateLoop(dpClauses, dpAssignment)
       IN  /\ ~p.contradiction
           /\ DpFindPureLiterals(p.clauses) = {}
           /\ dpVariables = {}
           /\ dpClauses' = p.clauses
           /\ dpAssignment' = p.assignment
    /\ dpPureLits' = {}
    /\ dpResult' = TRUE
    /\ dpReturned' = Append(dpReturned, TRUE)
    /\ dpPc' = "done"
    /\ UNCHANGED dpVariables
    /\ UNCHANGED <<text, encVars, sudokuVars, resVars, dpllVars, cdclVars>>

(* The pass ends with the elimination of a variable; select_variable    *)
(* takes the first element a loop over self.variables meets.            *)
DpPassEliminate ==
    /\ dpPc = "loop"
    /\ LET p == DpPropagateLoop(dpClauses, dpAssignment)
       IN  /\ ~p.contradiction
           /\ DpFindPureLiterals(p.clauses) = {}
           /\ \E var \in FirstOf(dpVariables, {}) :
                /\ dpClauses' = DpVariableElimination(p.clauses, var)
                /\ dpVariables' = dpVariables \ {var}
           /\ dpAssignment' = p.assignment
    /\ dpPureLits' = {}
    /\ UNCHANGED <<dpPc, dpResult, dpReturned>>
    /\ UNCHANGED <<text, encVars, sudokuVars, resVars, dpllVars, cdclVars>>

(* One pass of the outer `while True` of solve, however it ends.        *)
DpPass ==
    \/ DpPassContradiction
    \/ DpPassPureLiterals
    \/ DpPassSat
    \/ DpPassEliminate

(* solve() called again on the instance that has returned: the loop    *)
(* starts over on the clauses, variables and assignment left behind.    *)
DpSolveAgain ==
    /\ dpPc = "done"
    /\ Len(dpReturned) < MaxSolveCalls
    /\ dpPc' = "loop"
    /\ UNCHANGED <<dpClauses, dpVariables, dpAssignment, dpPureLits, dpResult,
                   dpReturned>>
    /\ UNCHANGED <<text, encVars, sudokuVars, resVars, dpllVars, cdclVars>>

(* ------------------------------------------------------------------ *)
(* dpll.py                                                              *)
(* ------------------------------------------------------------------ *)
(* DPLLSolver.parse_dimacs: clauses, variables and the unit literals.   *)
DpllParseDimacs ==
    /\ dpllPc = "idle"
    /\ dpllClauses' = ParseClauses(text)
    /\ dpllVariables' = ParseVariables(text)
    /\ dpllUnitClauses' =
          {c[1] : c \in {d \in Range(ParseClauses(text)) : Len(d) = 1}}
    /\ dpllPc' = "parsed"
    /\ UNCHANGED <<dpllAssignment, dpllWatchList, dpllOccurrences, dpllStack,
                   dpllRet, dpllResult, dpllReturned>>
    /\ UNCHANGED <<text, encVars, sudokuVars, resVars, dpVars, cdclVars>>

CountIn(clause, lit) == Cardinality({i \in DOMAIN clause : clause[i] = lit})

RECURSIVE SeqSum(_)
SeqSum(s) == IF s = <<>> THEN 0 ELSE Head(s) + SeqSum(Tail(s))

(* The occurrence counts solve() adds to self.occurrences.              *)
DpllCountOccurrences(clauses, occ) ==
    [lit \in Lits |->
        occ[lit] + SeqSum([i \in DOMAIN clauses |-> CountIn(clauses[i], lit)])]

(* DPLLSolver.solve up to its call of dpll().                           *)
DpllSolve ==
    /\ dpllPc = "parsed"
    /\ dpllWatchList' = InitWatchList(dpllClauses, 1, 0, dpllWatchList)
    /\ dpllOccurrences' = DpllCountOccurrences(dpllClauses, dpllOccurrences)
    /\ dpllPc' = "prop"
    /\ UNCHANGED <<dpllClauses, dpllVariables, dpllAssignment, dpllUnitClauses,
                   dpllStack, dpllRet, dpllResult, dpllReturned>>
    /\ UNCHANGED <<text, encVars, sudokuVars, resVars, dpVars, cdclVars>>

(* solve() called again on the instance that has returned: the watch   *)
(* lists and the occurrence counts are filled a second time over what   *)
(* the first call left.                                                 *)
DpllSolveAgain ==
    /\ dpllPc = "done"
    /\ Len(dpllReturned) < MaxSolveCalls
    /\ dpllWatchList' = InitWatchList(dpllClauses, 1, 0, dpllWatchList)
    /\ dpllOccurrences' = DpllCountOccurrences(dpllClauses, dpllOccurrences)
    /\ dpllPc' = "prop"
    /\ UNCHANGED <<dpllClauses, dpllVariables, dpllAssignment, dpllUnitClauses,
                   dpllStack, dpllRet, dpllResult, dpllReturned>>
    /\ UNCHANGED <<text, encVars, sudokuVars, resVars, dpVars, cdclVars>>

DpllLitTrue(a, l) == Abs(l) \in DOMAIN a /\ a[Abs(l)] = (l > 0)

(* The literals a clause scan collects as unassigned before it meets a  *)
(* true literal, and whether it met one.                                *)
RECURSIVE ScanClause(_, _, _)
ScanClause(clause, a, unassigned) ==
    IF clause = <<>> THEN [satisfied |-> FALSE, unassigned |-> unassigned]
    ELSE LET l == Head(clause)
         IN  IF Abs(l) \notin DOMAIN a
             THEN ScanClause(Tail(clause), a, Append(unassigned, l))
             ELSE IF a[Abs(l)] = (l > 0)
             THEN [satisfied |-> TRUE, unassigned |-> unassigned]
             ELSE ScanClause(Tail(clause), a, unassigned)

(* dpll(), the loop over the clauses watching the literal just assigned: *)
(* [conflict, units].                                                    *)
RECURSIVE DpllVisitWatches(_, _, _, _, _)
DpllVisitWatches(idxs, clauses, lit, a, units) ==
    IF idxs = <<>> THEN [conflict |-> FALSE, units |-> units]
    ELSE LET clause == clauses[Head(idxs) + 1]
             has_new_watch ==
                 \E i \in DOMAIN clause :
                     /\ clause[i] # lit
                     /\ (Abs(clause[i]) \notin DOMAIN a \/ DpllLitTrue(a, clause[i]))
             scan == ScanClause(clause, a, <<>>)
         IN  IF has_new_watch \/ scan.satisfied
             THEN DpllVisitWatches(Tail(idxs), clauses, lit, a, units)
             ELSE IF Len(scan.unassigned) = 1
             THEN DpllVisitWatches(Tail(idxs), clauses, lit, a,
                                   units \cup {scan.unassigned[1]})
             ELSE IF Len(scan.unassigned) = 0
             THEN [conflict |-> TRUE, units |-> units]
             ELSE DpllVisitWatches(Tail(idxs), clauses, lit, a, units)

(* dpll(), one iteration of `while self.unit_clauses`; set.pop() takes   *)
(* any element of the set.                                              *)
DpllUnitStep ==
    /\ dpllPc = "prop"
    /\ \E lit \in dpllUnitClauses :
         LET var == Abs(lit)
             value == lit > 0
             popped == dpllUnitClauses \ {lit}
             a == DictSet(dpllAssignment, var, value)
             visit == DpllVisitWatches(dpllWatchList[lit], dpllClauses, lit, a, popped)
         IN  IF var \in DOMAIN dpllAssignment
             THEN /\ dpllUnitClauses' = popped
                  /\ IF dpllAssignment[var] # value
                     THEN dpllPc' = "ret" /\ dpllRet' = FALSE
                     ELSE UNCHANGED <<dpllPc, dpllRet>>
                  /\ UNCHANGED <<dpllAssignment, dpllWatchList>>
             ELSE /\ dpllAssignment' = a
                  /\ dpllUnitClauses' = visit.units
                  /\ IF visit.conflict
                     THEN /\ dpllPc' = "ret"
                          /\ dpllRet' = FALSE
                          /\ UNCHANGED dpllWatchList
                     ELSE /\ dpllWatchList' =
                                [dpllWatchList EXCEPT ![lit] = <<>>,
                                                      ![Negate(lit)] = <<>>]
                          /\ UNCHANGED <<dpllPc, dpllRet>>
    /\ UNCHANGED <<dpllClauses, dpllVariables, dpllOccurrences, dpllStack, dpllResult, dpllReturned>>
    /\ UNCHANGED <<text, encVars, sudokuVars, resVars, dpVars, cdclVars>>

(* dpll(), pure literal elimination: the assignment after it.           *)
DpllPureLiterals(occ, a) ==
    LET pure_lits == {lit \in Lits : occ[lit] > 0 /\ occ[Negate(lit)] = 0}
        pure_new == {lit \in pure_lits : Abs(lit) \notin DOMAIN a}
    IN  [v \in (DOMAIN a) \cup {Abs(lit) : lit \in pure_new} |->
            IF v \in DOMAIN a THEN a[v] ELSE v \in pure_new]

DpllAllSatisfied(clauses, a) ==
    \A i \in DOMAIN clauses : \E j \in DOMAIN clauses[i] : DpllLitTrue(a, clauses[i][j])

(* dpll() after the propagation loop, when it returns True: every       *)
(* clause is satisfied, or no variable is unassigned.                   *)
DpllReturnTrue ==
    /\ dpllPc = "prop"
    /\ dpllUnitClauses = {}
    /\ LET a == DpllPureLiterals(dpllOccurrences, dpllAssignment)
       IN  /\ \/ DpllAllSatisfied(dpllClauses, a)
              \/ dpllVariables \subseteq DOMAIN a
           /\ dpllAssignment' = a
    /\ dpllRet' = TRUE
    /\ dpllPc' = "ret"
    /\ UNCHANGED <<dpllClauses, dpllVariables, dpllUnitClauses, dpllWatchList,
                   dpllOccurrences, dpllStack, dpllResult, dpllReturned>>
    /\ UNCHANGED <<text, encVars, sudokuVars, resVars, dpVars, cdclVars>>

(* dpll() after the propagation loop, when it branches: an unassigned   *)
(* variable (the first of a list built from a set) is set to True and   *)
(* dpll() is called.                                                    *)
DpllBranchTrue ==
    /\ dpllPc = "prop"
    /\ dpllUnitClauses = {}
    /\ LET a == DpllPureLiterals(dpllOccurrences, dpllAssignment)
       IN  /\ ~DpllAllSatisfied(dpllClauses, a)
           /\ \E var \in FirstOf(dpllVariables, DOMAIN a) :
                /\ dpllAssignment' = DictSet(a, var, TRUE)
                /\ dpllStack' = Append(dpllStack, [var |-> var, branch |-> TRUE])
    /\ UNCHANGED <<dpllPc, dpllClauses, dpllVariables, dpllUnitClauses, dpllWatchList,
                   dpllOccurrences, dpllRet, dpllResult, dpllReturned>>
    /\ UNCHANGED <<text, encVars, sudokuVars, resVars, dpVars, cdclVars>>

(* A recursive call returns to its caller, which goes on after the      *)
(* call: after a True it returns True; after a False for var = True it  *)
(* sets var to False and calls dpll() again; after a False for          *)
(* var = False it deletes var and returns False.                        *)
DpllCallReturns ==
    /\ dpllPc = "ret"
    /\ dpllStack # <<>>
    /\ LET top == dpllStack[Len(dpllStack)]
           popped == SubSeq(dpllStack, 1, Len(dpllStack) - 1)
       IN  IF dpllRet = TRUE
           THEN /\ dpllStack' = popped
                /\ UNCHANGED <<dpllPc, dpllAssignment>>
           ELSE IF top.branch = TRUE
           THEN /\ dpllAssignment' =
                      DictSet(DictDel(dpllAssignment, top.var), top.var, FALSE)
                /\ dpllStack' = [dpllStack EXCEPT ![Len(dpllStack)].branch = FALSE]
                /\ dpllPc' = "prop"
           ELSE /\ dpllAssignment' = DictDel(dpllAssignment, top.var)
                /\ dpllStack' = popped
                /\ UNCHANGED dpllPc
    /\ UNCHANGED <<dpllClauses, dpllVariables, dpllUnitClauses, dpllWatchList,
                   dpllOccurrences, dpllRet, dpllResult, dpllReturned>>
    /\ UNCHANGED <<text, encVars, sudokuVars, resVars, dpVars, cdclVars>>

(* The outermost call returns: solve() returns its result.              *)
DpllSolveReturn ==
    /\ dpllPc = "ret"
    /\ dpllStack = <<>>
    /\ dpllResult' = dpllRet
    /\ dpllReturned' = Append(dpllReturned, dpllRet)
    /\ dpllPc' = "done"
    /\ UNCHANGED <<dpllClauses, dpllVariables, dpllAssignment, dpllUnitClauses,
                   dpllWatchList, dpllOccurrences, dpllStack, dpllRet>>
    /\ UNCHANGED <<text, encVars, sudokuVars, resVars, dpVars, cdclVars>>

(* ------------------------------------------------------------------ *)
(* cdcl.py                                                              *)
(* ------------------------------------------------------------------ *)
(* An optional value (None or x) is the list <<>> or <<x>>. A float     *)
(* that the code only scales and compares is the fraction <<n, d>>.     *)
FracGeq(a, b) == a[1] * b[2] >= b[1] * a[2]
FracGt(a, b) == a[1] * b[2] > b[1] * a[2]

(* watch_list is a defaultdict(list): every literal that a text can     *)
(* hold, the texts of WideTexts included, is a key with the empty list. *)
WatchKeys == {l \in (0 - (NumVars + 1))..(NumVars + 1) : l # 0}

(* The fields of the solver that cdcl() reads and writes, as a record.  *)
CdclState ==
    [clauses |-> cdclClauses, variables |-> cdclVariables,
     assignment |-> cdclAssignment, decision_level |-> cdclDecisionLevel,
     var_info |-> cdclVarInfo, watch_list |-> cdclWatchList,
     learned_clauses |-> cdclLearnedClauses, trail |-> cdclTrail,
     trail_lim |-> cdclTrailLim, conflict_count |-> cdclConflictCount,
     restart_threshold |-> cdclRestartThreshold,
     var_activity |-> cdclVarActivity, var_order |-> cdclVarOrder]

CdclStore(st) ==
    /\ cdclClauses' = st.clauses
    /\ cdclVariables' = st.variables
    /\ cdclAssignment' = st.assignment
    /\ cdclDecisionLevel' = st.decision_level
    /\ cdclVarInfo' = st.var_info
    /\ cdclWatchList' = st.watch_list
    /\ cdclLearnedClauses' = st.learned_clauses
    /\ cdclTrail' = st.trail
    /\ cdclTrailLim' = st.trail_lim
    /\ cdclConflictCount' = st.conflict_count
    /\ cdclRestartThreshold' = st.restart_threshold
    /\ cdclVarActivity' = st.var_activity
    /\ cdclVarOrder' = st.var_order

(* CDCLSolver.parse_dimacs with initialize_data_structures: activities  *)
(* 0.0, var_order in the order the set of variables is visited, and the *)
(* watch lists.                                                         *)
CdclParseDimacs ==
    /\ cdclPc = "idle"
    /\ cdclClauses' = ParseClauses(text)
    /\ cdclVariables' = ParseVariables(text)
    /\ cdclVarActivity' = [v \in ParseVariables(text) |-> <<0, 1>>]
    /\ \E order \in IterationOrders(ParseVariables(text)) :
          cdclVarOrder' = cdclVarOrder \o order
    /\ cdclWatchList' = InitWatchList(ParseClauses(text), 1, 0, cdclWatchList)
    /\ cdclPc' = "loop"
    /\ UNCHANGED <<cdclAssignment, cdclDecisionLevel, cdclVarInfo, cdclLearnedClauses,
                   cdclTrail, cdclTrailLim, cdclConflictCount, cdclRestartThreshold,
                   cdclResult, cdclReturned, cdclAnalysis, cdclCall>>
    /\ UNCHANGED <<text, encVars, sudokuVars, resVars, dpVars, dpllVars>>

(* The clause a clause index stands for: an original clause, or a       *)
(* learned clause found by subtracting the number of originals.         *)
CdclClauseAt(st, clause_idx) ==
    IF clause_idx < Len(st.clauses)
    THEN st.clauses[clause_idx + 1]
    ELSE st.learned_clauses[clause_idx - Len(st.clauses) + 1]

(* assign without its line for var_info. *)
CdclAssignWithoutInfo(st, var, value, antecedent) ==
    LET lit == IF value THEN var ELSE 0 - var
    IN  [st EXCEPT !.assignment = IF InSeq(lit, @) THEN @ ELSE Append(@, lit),
                   !.trail = Append(@, lit)]

(* CDCLSolver.assign *)
CdclAssign(st, var, value, antecedent) ==
    LET lit == IF value THEN var ELSE 0 - var
    IN  [st EXCEPT !.assignment = IF InSeq(lit, @) THEN @ ELSE Append(@, lit),
                   !.var_info = DictSet(@, var, <<st.decision_level, antecedent>>),
                   !.trail = Append(@, lit)]

(* unit_propagation, the search for a new literal to watch: the first   *)
(* literal of the clause that is not neg_lit and whose variable is not  *)
(* a key of assignment, or that is positive with its variable a key.    *)
RECURSIVE CdclFindNewWatch(_, _, _)
CdclFindNewWatch(clause, neg_lit, assignment) ==
    IF clause = <<>> THEN <<>>
    ELSE LET other_lit == Head(clause)
             other_var == Abs(other_lit)
         IN  IF other_lit # neg_lit /\ ~InSeq(other_var, assignment)
             THEN <<other_lit>>
             ELSE IF InSeq(other_var, assignment) /\ other_lit > 0
             THEN <<other_lit>>
             ELSE CdclFindNewWatch(Tail(clause), neg_lit, assignment)

(* unit_propagation, the scan of a clause without a new watch.          *)
RECURSIVE CdclScanClause(_, _, _)
CdclScanClause(clause, assignment, unassigned) ==
    IF clause = <<>> THEN [satisfied |-> FALSE, unassigned |-> unassigned]
    ELSE LET l == Head(clause)
             v == Abs(l)
         IN  IF ~InSeq(v, assignment)
             THEN CdclScanClause(Tail(clause), assignment, Append(unassigned, l))
             ELSE IF l > 0
             THEN [satisfied |-> TRUE, unassigned |-> unassigned]
             ELSE CdclScanClause(Tail(clause), assignment, unassigned)

(* unit_propagation, the loop over the list of clauses watching         *)
(* neg_lit, from position pos of the list as it is now (the loop may    *)
(* append to the list it walks). kind: "none" at the end of the list,   *)
(* "conflict" with the clause returned, "hung" when the walk does not   *)
(* end within the steps given.                                          *)
RECURSIVE CdclVisitWatches(_, _, _, _, _)
(* The body of the loop for one clause. *)
CdclVisitClause(st, neg_lit, pos, to_remove, steps, clause_idx, clause, new_watch, scan) ==
    IF new_watch # <<>>
    THEN CdclVisitWatches(
             [st EXCEPT !.watch_list[new_watch[1]] = Append(@, clause_idx)],
             neg_lit, pos + 1, Append(to_remove, <<neg_lit, clause_idx>>), steps - 1)
    ELSE IF scan.satisfied
    THEN CdclVisitWatches(st, neg_lit, pos + 1, to_remove, steps - 1)
    ELSE IF Len(scan.unassigned) = 1
    THEN IF InSeq(Abs(scan.unassigned[1]), st.assignment)
         THEN IF ~(scan.unassigned[1] > 0)
              THEN [kind |-> "conflict", clause |-> clause, st |-> st,
                    to_remove |-> to_remove]
              ELSE CdclVisitWatches(st, neg_lit, pos + 1, to_remove, steps - 1)
         ELSE CdclVisitWatches(
                  CdclAssign(st, Abs(scan.unassigned[1]), scan.unassigned[1] > 0,
                             <<clause_idx>>),
                  neg_lit, pos + 1, to_remove, steps - 1)
    ELSE [kind |-> "conflict", clause |-> clause, st |-> st, to_remove |-> to_remove]

CdclVisitWatches(st, neg_lit, pos, to_remove, steps) ==
    IF pos > Len(st.watch_list[neg_lit])
    THEN [kind |-> "none", clause |-> <<>>, st |-> st, to_remove |-> to_remove]
    ELSE IF steps = 0
    THEN [kind |-> "hung", clause |-> <<>>, st |-> st, to_remove |-> to_remove]
    ELSE CdclVisitClause(
             st, neg_lit, pos, to_remove, steps,
             st.watch_list[neg_lit][pos],
             CdclClauseAt(st, st.watch_list[neg_lit][pos]),
             CdclFindNewWatch(CdclClauseAt(st, st.watch_list[neg_lit][pos]),
                              neg_lit, st.assignment),
             CdclScanClause(CdclClauseAt(st, st.watch_list[neg_lit][pos]),
                            st.assignment, <<>>))

(* list.remove: the first occurrence of x is taken out.                 *)
RemoveFirst(s, x) ==
    IF ~InSeq(x, s) THEN s
    ELSE LET k == SetMin({i \in DOMAIN s : s[i] = x})
         IN  SubSeq(s, 1, k - 1) \o SubSeq(s, k + 1, Len(s))

(* unit_propagation, "Remove processed watches".                        *)
RECURSIVE CdclRemoveWatches(_, _)
CdclRemoveWatches(watch_list, to_remove) ==
    IF to_remove = <<>> THEN watch_list
    ELSE LET lit == Head(to_remove)[1]
             idx == Head(to_remove)[2]
         IN  CdclRemoveWatches(
                 [watch_list EXCEPT ![lit] = RemoveFirst(@, idx)], Tail(to_remove))

(* CDCLSolver.unit_propagation: [kind, clause, st]. kind: "none" for    *)
(* return None, "conflict" for a returned clause, "raised" when next()  *)
(* finds no unprocessed literal (StopIteration), "hung" when the loop   *)
(* does not end within the rounds given.                                *)
RECURSIVE CdclUnitPropagation(_, _)
(* After the loop over the watching clauses of one literal. *)
CdclAfterVisit(visit, rounds) ==
    IF visit.kind # "none"
    THEN [kind |-> visit.kind, clause |-> visit.clause, st |-> visit.st]
    ELSE CdclUnitPropagation(
             [visit.st EXCEPT !.watch_list = CdclRemoveWatches(@, visit.to_remove)],
             rounds - 1)

(* The next unprocessed assignment: the keys of assignment, in order,   *)
(* whose variable is not on the trail.                                  *)
CdclUnprocessed(st) ==
    SelectSeq(st.assignment, LAMBDA l : Abs(l) \notin {Abs(x) : x \in Range(st.trail)})

CdclUnitPropagation(st, rounds) ==
    IF ~(Len(st.trail) < Len(st.assignment))
    THEN [kind |-> "none", clause |-> <<>>, st |-> st]
    ELSE IF rounds = 0
    THEN [kind |-> "hung", clause |-> <<>>, st |-> st]
    ELSE IF CdclUnprocessed(st) = <<>>
    THEN [kind |-> "raised", clause |-> <<>>, st |-> st]
    ELSE CdclAfterVisit(
             CdclVisitWatches(st, 0 - Head(CdclUnprocessed(st)), 1, <<>>, rounds),
             rounds)

(* analyze_conflict, the inner loop over an antecedent clause.          *)
RECURSIVE CdclEnqueueUnseen(_, _, _, _)
CdclEnqueueUnseen(clause, var, seen, queue) ==
    IF clause = <<>> THEN [seen |-> seen, queue |-> queue]
    ELSE LET v == Abs(Head(clause))
         IN  IF v # var /\ v \notin seen
             THEN CdclEnqueueUnseen(Tail(clause), var, seen \cup {v}, Append(queue, v))
             ELSE CdclEnqueueUnseen(Tail(clause), var, seen, queue)

(* analyze_conflict, `while queue`: the list current_level_lits.        *)
RECURSIVE CdclCurrentLevelLits(_, _, _, _)
CdclCurrentLevelLits(st, queue, seen, current_level_lits) ==
    IF queue = <<>> THEN current_level_lits
    ELSE LET var == Head(queue)
             info == IF var \in DOMAIN st.var_info THEN st.var_info[var]
                     ELSE <<0, <<>>>>
             level == info[1]
             antecedent == info[2]
             lits == IF level = st.decision_level
                     THEN Append(current_level_lits, var)
                     ELSE current_level_lits
         IN  IF antecedent = <<>>
             THEN CdclCurrentLevelLits(st, Tail(queue), seen, lits)
             ELSE LET r == CdclEnqueueUnseen(CdclClauseAt(st, antecedent[1]), var,
                                             seen, Tail(queue))
                  IN  CdclCurrentLevelLits(st, r.queue, r.seen, lits)

(* CDCLSolver.analyze_conflict: [kind, learned_clause, backtrack_level]; *)
(* kind "raised" when max() has nothing to range over or var_info has    *)
(* no entry for a variable (ValueError, KeyError).                       *)
CdclAnalyzeConflict(st, conflict_clause) ==
    LET queue == [i \in DOMAIN conflict_clause |-> Abs(conflict_clause[i])]
        current_level_lits == CdclCurrentLevelLits(st, queue, Range(queue), <<>>)
    IN  IF current_level_lits = <<>>
        THEN [kind |-> "ok", learned_clause |-> <<>>, backtrack_level |-> 0]
        ELSE
        LET uip == current_level_lits[Len(current_level_lits)]
            learned_clause == SelectSeq(conflict_clause, LAMBDA lit : Abs(lit) # uip)
            others == {v \in Range(current_level_lits) : v # uip}
        IN  IF Len(current_level_lits) > 1
            THEN IF others = {} \/ \E v \in others : v \notin DOMAIN st.var_info
                 THEN [kind |-> "raised", learned_clause |-> learned_clause,
                       backtrack_level |-> 0]
                 ELSE [kind |-> "ok", learned_clause |-> learned_clause,
                       backtrack_level |-> SetMax({st.var_info[v][1] : v \in others})]
            ELSE [kind |-> "ok", learned_clause |-> learned_clause, backtrack_level |-> 0]

(* The inner loop of backtrack without its del self.assignment[lit].    *)
RECURSIVE CdclPopTrailKeepAssignment(_, _)
CdclPopTrailKeepAssignment(st, lim) ==
    IF ~(Len(st.trail) > lim) THEN [kind |-> "ok", st |-> st]
    ELSE LET var == Abs(st.trail[Len(st.trail)])
         IN  CdclPopTrailKeepAssignment(
                 [st EXCEPT !.trail = SubSeq(@, 1, Len(@) - 1),
                            !.var_info = IF var \in DOMAIN @ THEN DictDel(@, var) ELSE @],
                 lim)

(* backtrack, the inner loop: the trail is popped down to length lim.   *)
(* kind "raised": the popped literal is no key of assignment (KeyError). *)
RECURSIVE CdclPopTrail(_, _)
CdclPopTrail(st, lim) ==
    IF ~(Len(st.trail) > lim) THEN [kind |-> "ok", st |-> st]
    ELSE LET lit == st.trail[Len(st.trail)]
             var == Abs(lit)
             popped == [st EXCEPT !.trail = SubSeq(@, 1, Len(@) - 1)]
         IN  IF ~InSeq(lit, st.assignment)
             THEN [kind |-> "raised", st |-> popped]
             ELSE CdclPopTrail(
                      [popped EXCEPT
                          !.assignment = SelectSeq(@, LAMBDA l : l # lit),
                          !.var_info = IF var \in DOMAIN @ THEN DictDel(@, var) ELSE @],
                      lim)

(* backtrack with `>=` for `>` in its loop condition: the target level  *)
(* is undone as well.                                                   *)
RECURSIVE CdclBacktrackBelow(_, _)
CdclBacktrackBelow(st, level) ==
    IF ~(st.decision_level >= level) THEN [kind |-> "ok", st |-> st]
    ELSE IF st.trail_lim = <<>>
    THEN [kind |-> "ok", st |-> st]
    ELSE LET r == CdclPopTrail(
                      [st EXCEPT !.decision_level = @ - 1,
                                 !.trail_lim = SubSeq(@, 1, Len(@) - 1)],
                      st.trail_lim[Len(st.trail_lim)])
         IN  IF r.kind = "raised" THEN r ELSE CdclBacktrackBelow(r.st, level)

(* CDCLSolver.backtrack: [kind, st]; kind "raised": trail_lim is empty  *)
(* when it is popped (IndexError), or the inner loop raised.            *)
RECURSIVE CdclBacktrack(_, _)
CdclBacktrack(st, level) ==
    IF ~(st.decision_level > level) THEN [kind |-> "ok", st |-> st]
    ELSE LET lowered == [st EXCEPT !.decision_level = @ - 1]
         IN  IF st.trail_lim = <<>>
             THEN [kind |-> "raised", st |-> lowered]
             ELSE LET lim == st.trail_lim[Len(st.trail_lim)]
                      r == CdclPopTrail(
                               [lowered EXCEPT !.trail_lim = SubSeq(@, 1, Len(@) - 1)],
                               lim)
                  IN  IF r.kind = "raised" THEN r ELSE CdclBacktrack(r.st, level)

(* analyze_conflict, the variable taken for the UIP: the last entry of  *)
(* current_level_lits, <<>> when the list is empty.                     *)
CdclUip(st, conflict_clause) ==
    LET queue == [i \in DOMAIN conflict_clause |-> Abs(conflict_clause[i])]
        current_level_lits == CdclCurrentLevelLits(st, queue, Range(queue), <<>>)
    IN  IF current_level_lits = <<>> THEN <<>>
        ELSE <<current_level_lits[Len(current_level_lits)]>>

(* analyze_conflict and backtrack called, as lines 72 and 75 of cdcl()  *)
(* call them, at the top of an iteration above level 0 on a clause of   *)
(* the database every literal of which the trail makes false.           *)
CdclAnalyzeCall ==
    /\ cdclPc = "loop"
    /\ cdclDecisionLevel >= 1
    /\ \E i \in DOMAIN cdclClauses :
          /\ \A l \in Range(cdclClauses[i]) : InSeq(0 - l, cdclTrail)
          /\ LET an == CdclAnalyzeConflict(CdclState, cdclClauses[i])
                 bt == CdclBacktrack(CdclState, an.backtrack_level)
             IN  /\ CdclStore(bt.st)
                 /\ cdclPc' = IF an.kind = "ok" /\ bt.kind = "ok"
                              THEN "analysed" ELSE "raised"
                 /\ cdclAnalysis' =
                       <<[conflict_clause |-> cdclClauses[i],
                          trail |-> cdclTrail,
                          uip |-> CdclUip(CdclState, cdclClauses[i]),
                          learned_clause |-> an.learned_clause,
                          backtrack_level |-> an.backtrack_level]>>
    /\ UNCHANGED <<cdclResult, cdclReturned, cdclCall>>
    /\ UNCHANGED <<text, encVars, sudokuVars, resVars, dpVars, dpllVars>>

(* CDCLSolver.select_variable: None, or the first variable of var_order *)
(* that is no key of assignment and has the highest activity among      *)
(* those (the sort is stable).                                          *)
CdclSelectVariable(st) ==
    LET unassigned == SelectSeq(st.var_order, LAMBDA var : ~InSeq(var, st.assignment))
        best == {i \in DOMAIN unassigned :
                    \A j \in DOMAIN unassigned :
                        FracGeq(st.var_activity[unassigned[i]],
                                st.var_activity[unassigned[j]])}
    IN  IF unassigned = <<>> THEN <<>> ELSE <<unassigned[SetMin(best)]>>

DecayPeriod == 100

(* CDCLSolver.bump_activity: 1.0 is added for every literal of the      *)
(* clause; every DecayPeriod-th conflict all activities are scaled by   *)
(* 0.95.                                                                *)
RECURSIVE CdclBump(_, _)
CdclBump(var_activity, clause) ==
    IF clause = <<>> THEN var_activity
    ELSE LET var == Abs(Head(clause))
             old == IF var \in DOMAIN var_activity THEN var_activity[var] ELSE <<0, 1>>
         IN  CdclBump(DictSet(var_activity, var, <<old[1] + old[2], old[2]>>),
                      Tail(clause))

CdclBumpActivity(st, clause) ==
    LET bumped == CdclBump(st.var_activity, clause)
    IN  [st EXCEPT !.var_activity =
            IF st.conflict_count % DecayPeriod = 0
            THEN [v \in DOMAIN bumped |-> <<bumped[v][1] * 19, bumped[v][2] * 20>>]
            ELSE bumped]

(* CDCLSolver.add_clause *)
CdclAddClause(st, clause) ==
    LET learned == Append(st.learned_clauses, clause)
        idx == Len(st.clauses) + Len(learned) - 1
        w1 == IF Len(clause) > 0
              THEN [st.watch_list EXCEPT ![clause[1]] = Append(@, idx)]
              ELSE st.watch_list
        w2 == IF Len(clause) > 1
              THEN [w1 EXCEPT ![clause[2]] = Append(@, idx)]
              ELSE w1
    IN  [st EXCEPT !.learned_clauses = learned, !.watch_list = w2]

(* cdcl(), "Restart if needed", after the activities were bumped.       *)
CdclRestartIfNeeded(st) ==
    IF FracGeq(<<st.conflict_count, 1>>, st.restart_threshold)
    THEN CdclBacktrack(
             [st EXCEPT !.restart_threshold = <<@[1] * 3, @[2] * 2>>], 0)
    ELSE [kind |-> "ok", st |-> st]

(* cdcl(), after backtrack(backtrack_level) returned or raised. *)
CdclAfterBackjump(bt, learned_clause) ==
    IF bt.kind = "raised" THEN bt
    ELSE CdclRestartIfNeeded(CdclBumpActivity(bt.st, learned_clause))

(* cdcl(), "Learn conflict clause and backtrack": the clause is         *)
(* appended to learned_clauses, then add_clause appends it again and    *)
(* watches it.                                                          *)
CdclLearn(st, an) ==
    IF an.kind = "raised" THEN [kind |-> "raised", st |-> st]
    ELSE CdclAfterBackjump(
             CdclBacktrack(
                 CdclAddClause(
                     [st EXCEPT !.learned_clauses = Append(@, an.learned_clause)],
                     an.learned_clause),
                 an.backtrack_level),
             an.learned_clause)

(* cdcl(), the branch taken on a conflict, conflict_count already       *)
(* raised: [kind, st]. kind "false" for return False at decision level  *)
(* 0, "ok" when the loop goes on, "raised" when analyze_conflict or     *)
(* backtrack raised.                                                    *)
CdclHandleConflict(st, conflict_clause) ==
    IF st.decision_level = 0 THEN [kind |-> "false", st |-> st]
    ELSE CdclLearn(st, CdclAnalyzeConflict(st, conflict_clause))

(* The decision without its trail_lim entry. *)
CdclPushDecisionWithoutLim(st, var) ==
    CdclAssign([st EXCEPT !.decision_level = @ + 1], var, TRUE, <<>>)

(* cdcl(), the decision: a new level, its trail_lim entry, and the      *)
(* variable assigned True without antecedent.                           *)
CdclPushDecision(st, var) ==
    CdclAssign([st EXCEPT !.decision_level = @ + 1,
                          !.trail_lim = Append(@, Len(st.trail))],
               var, TRUE, <<>>)

(* The branch without a conflict that goes on without its decision.    *)
CdclDecideNothing(st, var) ==
    IF \A v \in st.variables : InSeq(v, st.assignment)
    THEN [kind |-> "true", st |-> st]
    ELSE IF var = <<>> THEN [kind |-> "true", st |-> st]
    ELSE [kind |-> "ok", st |-> st]

(* cdcl(), the branch taken without a conflict: [kind, st]. kind "true" *)
(* for return True, "ok" after a decision.                              *)
CdclDecide(st, var) ==
    IF \A v \in st.variables : InSeq(v, st.assignment)
    THEN [kind |-> "true", st |-> st]
    ELSE IF var = <<>> THEN [kind |-> "true", st |-> st]
    ELSE [kind |-> "ok", st |-> CdclPushDecision(st, var[1])]

MaxRounds == 4

(* The body of `while True` in cdcl(), after unit_propagation.          *)
CdclAfterPropagation(up) ==
    IF up.kind = "conflict"
    THEN CdclHandleConflict([up.st EXCEPT !.conflict_count = @ + 1], up.clause)
    ELSE IF up.kind = "none" THEN CdclDecide(up.st, CdclSelectVariable(up.st))
    ELSE [kind |-> up.kind, st |-> up.st]

(* What an iteration leaves: the fields, and whether cdcl() goes on     *)
(* ("loop"), returned ("done"), raised or hung.                         *)
CdclOutcome(r) ==
    /\ CdclStore(r.st)
    /\ cdclPc' = CASE r.kind = "ok" -> "loop"
                   [] r.kind \in {"true", "false"} -> "done"
                   [] OTHER -> r.kind
    /\ cdclResult' = CASE r.kind = "true" -> TRUE
                       [] r.kind = "false" -> FALSE
                       [] OTHER -> cdclResult
    /\ cdclReturned' = CASE r.kind = "true" -> Append(cdclReturned, TRUE)
                         [] r.kind = "false" -> Append(cdclReturned, FALSE)
                         [] OTHER -> cdclReturned

(* One iteration of `while True` in CDCLSolver.cdcl.                    *)
CdclIteration ==
    /\ cdclPc = "loop"
    /\ CdclOutcome(CdclAfterPropagation(CdclUnitPropagation(CdclState, MaxRounds)))
    /\ cdclCall' = <<>>
    /\ UNCHANGED cdclAnalysis
    /\ UNCHANGED <<text, encVars, sudokuVars, resVars, dpVars, dpllVars>>

(* How many conflicts are handed to the conflict branch of cdcl().      *)
MaxConflicts == 2

(* The clauses of the database, original and learned, that have a       *)
(* literal and every literal of which the trail makes false: the        *)
(* clauses that propagation would have to report as conflicts.          *)
CdclFalsifiedClauses(st) ==
    {c \in Range(st.clauses) \cup Range(st.learned_clauses) :
        c # <<>> /\ \A l \in Range(c) : InSeq(0 - l, st.trail)}

(* The conflict branch of cdcl(), lines 64 to 83, entered at the top of *)
(* an iteration with a falsified clause of the database for             *)
(* conflict_clause: unit_propagation itself never returns one.          *)
CdclConflictCall ==
    /\ cdclPc = "loop"
    /\ cdclConflictCount < MaxConflicts
    /\ \E conflict_clause \in CdclFalsifiedClauses(CdclState) :
          /\ CdclOutcome(CdclHandleConflict(
                 [CdclState EXCEPT !.conflict_count = @ + 1], conflict_clause))
          /\ cdclCall' = <<[name |-> "conflict", st |-> CdclState,
                            conflict_clause |-> conflict_clause]>>
    /\ UNCHANGED cdclAnalysis
    /\ UNCHANGED <<text, encVars, sudokuVars, resVars, dpVars, dpllVars>>

(* How many conflicts are handed to the conflict branch in a run long   *)
(* enough for two restarts.                                             *)
RestartConflicts == 150

(* The conflict branch entered as in CdclConflictCall, up to            *)
(* RestartConflicts times.                                              *)
CdclConflictRun ==
    /\ cdclPc = "loop"
    /\ cdclConflictCount < RestartConflicts
    /\ \E conflict_clause \in CdclFalsifiedClauses(CdclState) :
          /\ CdclOutcome(CdclHandleConflict(
                 [CdclState EXCEPT !.conflict_count = @ + 1], conflict_clause))
          /\ cdclCall' = <<[name |-> "conflict", st |-> CdclState,
                            conflict_clause |-> conflict_clause]>>
    /\ UNCHANGED cdclAnalysis
    /\ UNCHANGED <<text, encVars, sudokuVars, resVars, dpVars, dpllVars>>

(* backtrack(level) called at the top of an iteration, as the restart   *)
(* of line 83 calls it, with a level from 0 to decision_level.          *)
CdclBacktrackCall ==
    /\ cdclPc = "loop"
    /\ \E level \in 0..cdclDecisionLevel :
          LET bt == CdclBacktrack(CdclState, level)
          IN  /\ CdclStore(bt.st)
              /\ cdclPc' = IF bt.kind = "ok" THEN "loop" ELSE "raised"
              /\ cdclCall' = <<[name |-> "backtrack", st |-> CdclState,
                                level |-> level]>>
    /\ UNCHANGED <<cdclResult, cdclReturned, cdclAnalysis>>
    /\ UNCHANGED <<text, encVars, sudokuVars, resVars, dpVars, dpllVars>>

(* assign(var, value, None) called at the top of an iteration on a     *)
(* variable of the formula, assigned or not.                            *)
CdclAssignCall ==
    /\ cdclPc = "loop"
    /\ \E var \in cdclVariables, value \in BOOLEAN :
          /\ CdclStore(CdclAssign(CdclState, var, value, <<>>))
          /\ cdclCall' = <<[name |-> "assign", st |-> CdclState,
                            var |-> var, value |-> value]>>
    /\ cdclPc' = "assigned"
    /\ UNCHANGED <<cdclResult, cdclReturned, cdclAnalysis>>
    /\ UNCHANGED <<text, encVars, sudokuVars, resVars, dpVars, dpllVars>>

(* solve() called again on the instance that has returned: cdcl()     *)
(* starts over on the fields left behind.                               *)
CdclSolveAgain ==
    /\ cdclPc = "done"
    /\ Len(cdclReturned) < MaxSolveCalls
    /\ cdclPc' = "loop"
    /\ UNCHANGED <<cdclClauses, cdclVariables, cdclAssignment, cdclDecisionLevel,
                   cdclVarInfo, cdclWatchList, cdclLearnedClauses, cdclTrail,
                   cdclTrailLim, cdclConflictCount, cdclRestartThreshold,
                   cdclVarActivity, cdclVarOrder, cdclResult, cdclReturned,
                   cdclAnalysis, cdclCall>>
    /\ UNCHANGED <<text, encVars, sudokuVars, resVars, dpVars, dpllVars>>

(* ------------------------------------------------------------------ *)
(* sudoku_dpll.py, class CDCL                                           *)
(* ------------------------------------------------------------------ *)
(* The clauses the caller adds, one add_clause per line of the text;    *)
(* add_clause([]) for a line without literals.                          *)
AddedClauses == {Range(ParseLine(text[i])) : i \in DOMAIN text}
AddedVariables == {Abs(l) : l \in UNION AddedClauses}

UnitClauses(clauses) == {c \in clauses : Cardinality(c) = 1}
TheLiteral(clause) == CHOOSE l \in clause : TRUE

(* The fields of CDCL that solve() reads and writes, as a record.       *)
SCdclState ==
    [clauses |-> scdclClauses, assignments |-> scdclAssignments,
     decision_level |-> scdclDecisionLevel,
     learned_clauses |-> scdclLearnedClauses,
     variable_activity |-> scdclVariableActivity]

SCdclStore(st) ==
    /\ scdclClauses' = st.clauses
    /\ scdclAssignments' = st.assignments
    /\ scdclDecisionLevel' = st.decision_level
    /\ scdclLearnedClauses' = st.learned_clauses
    /\ scdclVariableActivity' = st.variable_activity

(* The calls of add_clause, then the call of solve(): its first         *)
(* unit_propagate starts with changed = True.                           *)
SCdclAddClauses ==
    /\ scdclPc = "idle"
    /\ scdclClauses' = AddedClauses
    /\ scdclVariables' = AddedVariables
    /\ scdclVariableActivity' = [v \in AddedVariables |-> <<0, 1>>]
    /\ scdclPc' = "for"
    /\ scdclSite' = "initial"
    /\ scdclPending' = {}
    /\ scdclChanged' = TRUE
    /\ UNCHANGED <<scdclAssignments, scdclDecisionLevel, scdclLearnedClauses,
                   scdclResult, scdclLate>>
    /\ UNCHANGED <<text, encVars, dimacsVars, sdpllVars, sdpVars>>

(* unit_propagate, a round of `while changed`: the unit clauses of the  *)
(* two sets are listed.                                                 *)
SCdclListUnits ==
    /\ scdclPc = "for"
    /\ scdclPending = {}
    /\ scdclChanged
    /\ scdclChanged' = FALSE
    /\ scdclPending' = UnitClauses(scdclClauses \cup scdclLearnedClauses)
    /\ UNCHANGED <<scdclPc, scdclSite, scdclClauses, scdclVariables, scdclAssignments,
                   scdclDecisionLevel, scdclLearnedClauses, scdclVariableActivity,
                   scdclResult, scdclLate>>
    /\ UNCHANGED <<text, encVars, dimacsVars, sdpllVars, sdpVars>>

(* bump_variable_activity *)
SCdclBump(activity, var) ==
    [activity EXCEPT ![var] = <<@[1] + @[2], @[2]>>]

(* decay_variable_activities *)
SCdclDecay(activity) ==
    [v \in DOMAIN activity |-> <<activity[v][1] * 19, activity[v][2] * 20>>]

(* unit_propagate, the body of the for loop for one unit clause whose   *)
(* variable is unassigned: [conflict, clause, st]. The literal is       *)
(* assigned, the clauses that hold it are dropped from both sets and    *)
(* its negation is cut from the others; the clause that becomes empty   *)
(* is returned as the conflict, with the set it came from left as the   *)
(* first filter made it.                                                *)
SCdclPropagateLiteral(st, clause, literal) ==
    LET var == Abs(literal)
        a == DictSet(st.assignments, var,
                     [value |-> literal > 0, level |-> st.decision_level,
                      antecedent |-> <<clause>>])
        act == SCdclBump(st.variable_activity, var)
        kept == {c \in st.clauses : literal \notin c}
        keptLearned == {c \in st.learned_clauses : literal \notin c}
        cut == {c \ {Negate(literal)} : c \in kept}
        cutLearned == {c \ {Negate(literal)} : c \in keptLearned}
        st1 == [st EXCEPT !.assignments = a, !.variable_activity = act]
    IN  IF {Negate(literal)} \in kept
        THEN [conflict |-> TRUE, clause |-> {Negate(literal)},
              st |-> [st1 EXCEPT !.clauses = kept, !.learned_clauses = keptLearned]]
        ELSE IF {Negate(literal)} \in keptLearned
        THEN [conflict |-> TRUE, clause |-> {Negate(literal)},
              st |-> [st1 EXCEPT !.clauses = cut, !.learned_clauses = keptLearned]]
        ELSE [conflict |-> FALSE, clause |-> {},
              st |-> [st1 EXCEPT !.clauses = cut, !.learned_clauses = cutLearned]]

(* unit_propagate, the body of the for loop for one unit clause:        *)
(* [conflict, clause, changed, st].                                     *)
SCdclVisitUnit(st, clause) ==
    LET literal == TheLiteral(clause)
        var == Abs(literal)
        r == SCdclPropagateLiteral(st, clause, literal)
    IN  IF var \in DOMAIN st.assignments
        THEN [conflict |-> st.assignments[var].value # (literal > 0),
              clause |-> clause, changed |-> FALSE, st |-> st]
        ELSE [conflict |-> r.conflict, clause |-> r.clause, changed |-> TRUE,
              st |-> r.st]

(* analyze_conflict: the literals of the clause whose variable was      *)
(* assigned at the current decision level (one entry per literal).      *)
SCdclCurrentLevelLits(st, conflict_clause) ==
    {l \in conflict_clause :
        /\ Abs(l) \in DOMAIN st.assignments
        /\ st.assignments[Abs(l)].level = st.decision_level}

(* analyze_conflict, `while len(current_level_vars) == 1`: the clause   *)
(* is resolved with the antecedent of its only current-level variable   *)
(* until that variable is a decision or the count is not one.           *)
RECURSIVE SCdclResolveConflict(_, _)
SCdclResolveConflict(st, conflict_clause) ==
    LET current == SCdclCurrentLevelLits(st, conflict_clause)
        var == Abs(TheLiteral(current))
        antecedent == st.assignments[var].antecedent
    IN  IF Cardinality(current) # 1 THEN conflict_clause
        ELSE IF antecedent = <<>> THEN conflict_clause
        ELSE SCdclResolveConflict(st,
                 (conflict_clause \ {0 - var}) \cup (antecedent[1] \ {var}))

(* analyze_conflict, the backtrack level: the second entry of the       *)
(* levels of the assigned literals sorted in decreasing order, 0 when   *)
(* there are fewer than two.                                            *)
SCdclBacktrackLevel(st, learned_clause) ==
    LET assigned == {l \in learned_clause : Abs(l) \in DOMAIN st.assignments}
        level(l) == st.assignments[Abs(l)].level
        top == SetMax({level(l) : l \in assigned})
        atTop == {l \in assigned : level(l) = top}
    IN  IF Cardinality(assigned) <= 1 THEN 0
        ELSE IF Cardinality(atTop) >= 2 THEN top
        ELSE SetMax({level(l) : l \in assigned \ atTop})

(* CDCL.analyze_conflict: <<>> for None at level 0, else the learned    *)
(* clause, the backtrack level and the fields.                          *)
SCdclAnalyzeConflict(st, conflict_clause) ==
    LET learned_clause == SCdclResolveConflict(st, conflict_clause)
    IN  IF st.decision_level = 0 THEN <<>>
        ELSE <<[learned_clause |-> learned_clause,
                backtrack_level |-> SCdclBacktrackLevel(st, learned_clause),
                st |-> [st EXCEPT !.learned_clauses = @ \cup {learned_clause}]]>>

(* CDCL.backtrack *)
SCdclBacktrack(st, backtrack_level) ==
    [st EXCEPT !.assignments =
        [v \in {w \in DOMAIN @ : @[w].level <= backtrack_level} |-> @[v]]]

(* CDCL.choose_literal: <<>> for None, else the unassigned variable of  *)
(* highest activity, the first met among equals.                        *)
SCdclChooseLiteral(st, variables) ==
    {IF SelectSeq(o, LAMBDA v : v \notin DOMAIN st.assignments) = <<>> THEN <<>>
     ELSE LET unassigned == SelectSeq(o, LAMBDA v : v \notin DOMAIN st.assignments)
              best == SetMin({i \in DOMAIN unassigned :
                         \A j \in DOMAIN unassigned :
                            FracGeq(st.variable_activity[unassigned[i]],
                                    st.variable_activity[unassigned[j]])})
          IN  <<unassigned[best]>> :
     o \in IterationOrders(variables)}

(* solve(), after a conflict analysed in the inner loop: backtrack, the *)
(* learned clause added to the clauses, the activities decayed.         *)
SCdclLearn(an) ==
    LET bt == SCdclBacktrack(an.st, an.backtrack_level)
    IN  [bt EXCEPT !.decision_level = an.backtrack_level,
                   !.clauses = @ \cup {an.learned_clause},
                   !.learned_clauses = @ \cup {an.learned_clause},
                   !.variable_activity = SCdclDecay(@)]

(* What solve() does when a call of unit_propagate reports a conflict:  *)
(* [kind, st]. After the initial call it returns False; in the inner    *)
(* loop it analyses the conflict, returns False when there is nothing   *)
(* to learn and else learns and propagates; after the call that follows *)
(* learning it goes back to the top of the inner loop.                  *)
SCdclOnConflict(site, st, conflict_clause) ==
    IF site = "initial" THEN [kind |-> "false", st |-> st]
    ELSE IF site = "learned" THEN [kind |-> "decision", st |-> st]
    ELSE IF SCdclAnalyzeConflict(st, conflict_clause) = <<>>
    THEN [kind |-> "false", st |-> st]
    ELSE [kind |-> "learned",
          st |-> SCdclLearn(SCdclAnalyzeConflict(st, conflict_clause)[1])]

(* What a step of solve() leaves: the fields, and either the verdict    *)
(* returned or the call of unit_propagate that starts.                  *)
SCdclOutcome(r) ==
    /\ SCdclStore(r.st)
    /\ scdclPending' = {}
    /\ IF r.kind \in {"true", "false"}
       THEN /\ scdclPc' = "done"
            /\ scdclResult' = (r.kind = "true")
            /\ scdclChanged' = FALSE
            /\ UNCHANGED scdclSite
       ELSE /\ scdclSite' = r.kind
            /\ scdclChanged' = TRUE
            /\ UNCHANGED <<scdclPc, scdclResult>>

(* unit_propagate, one iteration of the for loop; the list is built     *)
(* from a set, so the clause is any of those not visited yet.           *)
SCdclUnitStep ==
    /\ scdclPc = "for"
    /\ \E clause \in scdclPending :
         LET r == SCdclVisitUnit(SCdclState, clause)
         IN  IF r.conflict
             THEN SCdclOutcome(SCdclOnConflict(scdclSite, r.st, r.clause))
             ELSE /\ SCdclStore(r.st)
                  /\ scdclPending' = scdclPending \ {clause}
                  /\ scdclChanged' = (scdclChanged \/ r.changed)
                  /\ UNCHANGED <<scdclPc, scdclSite, scdclResult>>
    /\ UNCHANGED <<scdclVariables, scdclLate>>
    /\ UNCHANGED <<text, encVars, dimacsVars, sdpllVars, sdpVars>>

(* solve(), the decision: [kind, st]. No unassigned variable: return    *)
(* True; else a new level with the variable True and no antecedent.     *)
SCdclDecide(st, var) ==
    IF var = <<>> THEN [kind |-> "true", st |-> st]
    ELSE [kind |-> "decision",
          st |-> [st EXCEPT !.decision_level = @ + 1,
                            !.assignments = DictSet(@, var[1],
                                [value |-> TRUE, level |-> st.decision_level + 1,
                                 antecedent |-> <<>>])]]

(* What solve() does when a call of unit_propagate reports no conflict. *)
SCdclOnPropagated(site, st, var) ==
    IF site = "learned" THEN [kind |-> "decision", st |-> st]
    ELSE IF /\ site = "initial"
            /\ st.clauses = {}
            /\ \A c \in st.learned_clauses : Cardinality(c) = 0
    THEN [kind |-> "true", st |-> st]
    ELSE SCdclDecide(st, var)

(* unit_propagate returns (True, None): a round listed no unit clause   *)
(* that changed anything.                                               *)
SCdclPropagated ==
    /\ scdclPc = "for"
    /\ scdclPending = {}
    /\ ~scdclChanged
    /\ \E var \in SCdclChooseLiteral(SCdclState, scdclVariables) :
          SCdclOutcome(SCdclOnPropagated(scdclSite, SCdclState, var))
    /\ UNCHANGED <<scdclVariables, scdclLate>>
    /\ UNCHANGED <<text, encVars, dimacsVars, sdpllVars, sdpVars>>

(* The clauses a caller adds to a solver that has returned: 1 to        *)
(* MaxClauseLen literals over distinct variables, one variable more     *)
(* than the text can hold among them.                                   *)
LateClauses ==
    {c \in SUBSET {l \in (0 - (NumVars + 1))..(NumVars + 1) : l # 0} :
        /\ Cardinality(c) \in 1..MaxClauseLen
        /\ \A l \in c : Negate(l) \notin c}

(* A caller goes on with the solver that has returned True: one more    *)
(* add_clause, then solve() again, which starts with unit_propagate at  *)
(* the decision level the first call has left.                          *)
SCdclSolveAgain ==
    /\ scdclPc = "done"
    /\ scdclResult = TRUE
    /\ Cardinality(scdclLate) < MaxLateClauses
    /\ \E clause \in LateClauses :
         LET added == {Abs(l) : l \in clause}
         IN  /\ scdclClauses' = scdclClauses \cup {clause}
             /\ scdclVariables' = scdclVariables \cup added
             /\ scdclVariableActivity' =
                   [v \in (DOMAIN scdclVariableActivity) \cup added |->
                       IF v \in DOMAIN scdclVariableActivity
                       THEN scdclVariableActivity[v] ELSE <<0, 1>>]
             /\ scdclLate' = scdclLate \cup {clause}
    /\ scdclPc' = "for"
    /\ scdclSite' = "initial"
    /\ scdclPending' = {}
    /\ scdclChanged' = TRUE
    /\ UNCHANGED <<scdclAssignments, scdclDecisionLevel, scdclLearnedClauses,
                   scdclResult>>
    /\ UNCHANGED <<text, encVars, dimacsVars, sdpllVars, sdpVars>>

(* A caller calls backtrack(backtrack_level) on the solver that has     *)
(* returned, for a level below the one solve() has left.                *)
SCdclBacktrackCall ==
    /\ scdclPc = "done"
    /\ \E backtrack_level \in 0..(scdclDecisionLevel - 1) :
         SCdclStore(SCdclBacktrack(SCdclState, backtrack_level))
    /\ scdclPc' = "backtracked"
    /\ UNCHANGED <<scdclSite, scdclPending, scdclChanged, scdclVariables,
                   scdclResult, scdclLate>>
    /\ UNCHANGED <<text, encVars, dimacsVars, sdpllVars, sdpVars>>

(* ------------------------------------------------------------------ *)
(* sudoku_resolution.py, class DPLL                                     *)
(* ------------------------------------------------------------------ *)
(* The calls of add_clause, then the call of solve(): unit_propagate    *)
(* starts with changed = True.                                          *)
SDpllAddClauses ==
    /\ sdpllPc = "idle"
    /\ sdpllClauses' = AddedClauses
    /\ sdpllVariables' = AddedVariables
    /\ sdpllPc' = "for"
    /\ sdpllPending' = {}
    /\ sdpllChanged' = TRUE
    /\ UNCHANGED <<sdpllAssignments, sdpllStack, sdpllRet, sdpllResult>>
    /\ UNCHANGED <<text, encVars, dimacsVars, scdclVars, sdpVars>>

(* unit_propagate, a round of `while changed`: the unit clauses are     *)
(* listed.                                                              *)
SDpllListUnits ==
    /\ sdpllPc = "for"
    /\ sdpllPending = {}
    /\ sdpllChanged
    /\ sdpllChanged' = FALSE
    /\ sdpllPending' = UnitClauses(sdpllClauses)
    /\ UNCHANGED <<sdpllPc, sdpllClauses, sdpllVariables, sdpllAssignments,
                   sdpllStack, sdpllRet, sdpllResult>>
    /\ UNCHANGED <<text, encVars, dimacsVars, scdclVars, sdpVars>>

(* unit_propagate, one iteration of the for loop, for any clause of the *)
(* list not visited yet: the literal is assigned whatever the variable  *)
(* held, the clauses that hold it are dropped, its negation is cut from *)
(* the others; a clause that becomes empty makes the call return False  *)
(* with self.clauses left as the filter made it.                        *)
SDpllUnitStep ==
    /\ sdpllPc = "for"
    /\ \E clause \in sdpllPending :
         LET literal == TheLiteral(clause)
             kept == {c \in sdpllClauses : literal \notin c}
         IN  /\ sdpllAssignments' = DictSet(sdpllAssignments, Abs(literal), literal > 0)
             /\ IF {Negate(literal)} \in kept
                THEN /\ sdpllClauses' = kept
                     /\ sdpllPc' = "ret"
                     /\ sdpllRet' = FALSE
                     /\ sdpllPending' = {}
                     /\ sdpllChanged' = FALSE
                ELSE /\ sdpllClauses' = {c \ {Negate(literal)} : c \in kept}
                     /\ sdpllPending' = sdpllPending \ {clause}
                     /\ sdpllChanged' = TRUE
                     /\ UNCHANGED <<sdpllPc, sdpllRet>>
    /\ UNCHANGED <<sdpllVariables, sdpllStack, sdpllResult>>
    /\ UNCHANGED <<text, encVars, dimacsVars, scdclVars, sdpVars>>

(* choose_literal: <<>> for None, else the first unassigned variable    *)
(* the loop over self.variables meets.                                  *)
SDpllChooseLiteral(variables, assignments) ==
    IF variables \ DOMAIN assignments = {} THEN {<<>>}
    ELSE {<<v>> : v \in FirstOf(variables, DOMAIN assignments)}

(* solve(), the loop that builds the clause set of a branch: lit is the *)
(* literal the branch makes false. It is cut from the clauses that hold *)
(* it; the loop stops at a clause that would become empty, and the set  *)
(* then holds the clauses visited before it, whichever they were.       *)
SDpllBranchClauses(clauses, lit) ==
    IF {lit} \in clauses
    THEN SUBSET {c \ {lit} : c \in clauses \ {{lit}}}
    ELSE {{c \ {lit} : c \in clauses}}

(* unit_propagate returned True. solve() returns True when no clause is *)
(* left and False when no variable is unassigned; else it assigns the   *)
(* chosen variable True and calls solve() on the clauses of that        *)
(* branch.                                                              *)
SDpllPropagated ==
    /\ sdpllPc = "for"
    /\ sdpllPending = {}
    /\ ~sdpllChanged
    /\ \E literal \in SDpllChooseLiteral(sdpllVariables, sdpllAssignments) :
         IF sdpllClauses = {} \/ literal = <<>>
         THEN /\ sdpllPc' = "ret"
              /\ sdpllRet' = (sdpllClauses = {})
              /\ UNCHANGED <<sdpllClauses, sdpllAssignments, sdpllStack, sdpllChanged>>
         ELSE /\ sdpllAssignments' = DictSet(sdpllAssignments, literal[1], TRUE)
              /\ sdpllClauses' \in SDpllBranchClauses(sdpllClauses, 0 - literal[1])
              /\ sdpllStack' = Append(sdpllStack,
                                  [literal |-> literal[1], old_clauses |-> sdpllClauses,
                                   branch |-> TRUE,
                                   assigned |-> DOMAIN sdpllAssignments])
              /\ sdpllChanged' = TRUE
              /\ UNCHANGED <<sdpllPc, sdpllRet>>
    /\ UNCHANGED <<sdpllPending, sdpllVariables, sdpllResult>>
    /\ UNCHANGED <<text, encVars, dimacsVars, scdclVars, sdpVars>>

(* A recursive call of solve() came back to the call that made it.      *)
(* After the True branch: True is passed up with the clauses as they    *)
(* are; on False the clauses are restored, the variable is assigned     *)
(* False and solve() is called on the clauses of that branch. After the *)
(* False branch: the clauses are restored, the variable is unassigned   *)
(* on False, and the result is passed up. Assignments made by unit      *)
(* propagation inside the call are left in place.                       *)
SDpllCallReturns ==
    /\ sdpllPc = "ret"
    /\ sdpllStack # <<>>
    /\ LET f == sdpllStack[Len(sdpllStack)]
           below == SubSeq(sdpllStack, 1, Len(sdpllStack) - 1)
       IN  IF f.branch /\ sdpllRet
           THEN /\ sdpllStack' = below
                /\ UNCHANGED <<sdpllPc, sdpllRet, sdpllClauses, sdpllAssignments,
                               sdpllChanged>>
           ELSE IF f.branch
           THEN /\ sdpllAssignments' =
                       DictSet(DictDel(sdpllAssignments, f.literal), f.literal, FALSE)
                /\ sdpllClauses' \in SDpllBranchClauses(f.old_clauses, f.literal)
                /\ sdpllStack' = Append(below, [f EXCEPT !.branch = FALSE])
                /\ sdpllPc' = "for"
                /\ sdpllChanged' = TRUE
                /\ UNCHANGED sdpllRet
           ELSE /\ sdpllClauses' = f.old_clauses
                /\ sdpllAssignments' = IF sdpllRet THEN sdpllAssignments
                                       ELSE DictDel(sdpllAssignments, f.literal)
                /\ sdpllStack' = below
                /\ UNCHANGED <<sdpllPc, sdpllRet, sdpllChanged>>
    /\ UNCHANGED <<sdpllPending, sdpllVariables, sdpllResult>>
    /\ UNCHANGED <<text, encVars, dimacsVars, scdclVars, sdpVars>>

(* The outermost call of solve() returns to its caller.                 *)
SDpllSolveReturn ==
    /\ sdpllPc = "ret"
    /\ sdpllStack = <<>>
    /\ sdpllPc' = "done"
    /\ sdpllResult' = sdpllRet
    /\ UNCHANGED <<sdpllPending, sdpllChanged, sdpllClauses, sdpllVariables,
                   sdpllAssignments, sdpllStack, sdpllRet>>
    /\ UNCHANGED <<text, encVars, dimacsVars, scdclVars, sdpVars>>

(* ------------------------------------------------------------------ *)
(* sudoku_dp.py, class DavisPutnam                                      *)
(* ------------------------------------------------------------------ *)
(* The calls of add_clause, then the call of solve(): unit_propagate    *)
(* starts with changed = True.                                          *)
SDpAddClauses ==
    /\ sdpPc = "idle"
    /\ sdpClauses' = AddedClauses
    /\ sdpVariables' = AddedVariables
    /\ sdpPc' = "for"
    /\ sdpPending' = {}
    /\ sdpChanged' = TRUE
    /\ UNCHANGED <<sdpAssignments, sdpStack, sdpRet, sdpResult>>
    /\ UNCHANGED <<text, encVars, dimacsVars, scdclVars, sdpllVars>>

(* unit_propagate, a round of `while changed`: the unit clauses are     *)
(* listed.                                                              *)
SDpListUnits ==
    /\ sdpPc = "for"
    /\ sdpPending = {}
    /\ sdpChanged
    /\ sdpChanged' = FALSE
    /\ sdpPending' = UnitClauses(sdpClauses)
    /\ UNCHANGED <<sdpPc, sdpClauses, sdpVariables, sdpAssignments,
                   sdpStack, sdpRet, sdpResult>>
    /\ UNCHANGED <<text, encVars, dimacsVars, scdclVars, sdpllVars>>

(* unit_propagate, the body of the for loop for one unit clause:        *)
(* [conflict, changed, clauses, assignments]. An assigned variable is   *)
(* a conflict when its value differs and is skipped otherwise; else the *)
(* literal is assigned, the clauses that hold it are dropped and its    *)
(* negation is cut from the others, a clause that becomes empty being a *)
(* conflict that leaves self.clauses as the filter made it.             *)
SDpVisitUnit(clauses, assignments, clause) ==
    LET literal == TheLiteral(clause)
        var == Abs(literal)
        kept == {c \in clauses : literal \notin c}
        a == DictSet(assignments, var, literal > 0)
    IN  IF var \in DOMAIN assignments
        THEN [conflict |-> assignments[var] # (literal > 0), changed |-> FALSE,
              clauses |-> clauses, assignments |-> assignments]
        ELSE IF {Negate(literal)} \in kept
        THEN [conflict |-> TRUE, changed |-> FALSE,
              clauses |-> kept, assignments |-> a]
        ELSE [conflict |-> FALSE, changed |-> TRUE,
              clauses |-> {c \ {Negate(literal)} : c \in kept}, assignments |-> a]

(* unit_propagate, one iteration of the for loop, for any clause of the *)
(* list not visited yet; on a conflict unit_propagate returns False and *)
(* so does solve().                                                     *)
SDpUnitStep ==
    /\ sdpPc = "for"
    /\ \E clause \in sdpPending :
         LET r == SDpVisitUnit(sdpClauses, sdpAssignments, clause)
         IN  /\ sdpClauses' = r.clauses
             /\ sdpAssignments' = r.assignments
             /\ IF r.conflict
                THEN /\ sdpPc' = "ret"
                     /\ sdpRet' = FALSE
                     /\ sdpPending' = {}
                     /\ sdpChanged' = FALSE
                ELSE /\ sdpPending' = sdpPending \ {clause}
                     /\ sdpChanged' = (sdpChanged \/ r.changed)
                     /\ UNCHANGED <<sdpPc, sdpRet>>
    /\ UNCHANGED <<sdpVariables, sdpStack, sdpResult>>
    /\ UNCHANGED <<text, encVars, dimacsVars, scdclVars, sdpllVars>>

(* A variant of SDpPureLiterals that takes every literal for pure.      *)
SDpEveryLiteral(clauses) == UNION clauses

(* pure_literal_elimination: the literals of the clauses whose negation *)
(* is in no clause.                                                     *)
SDpPureLiterals(clauses) ==
    {literal \in UNION clauses : Negate(literal) \notin UNION clauses}

(* pure_literal_elimination: [clauses, assignments]. Every pure literal *)
(* whose variable is unassigned is assigned, and the clauses that hold  *)
(* a pure literal are dropped.                                          *)
SDpPureLiteralElimination(clauses, assignments) ==
    LET pure_literals == SDpPureLiterals(clauses)
        fresh == {l \in pure_literals : Abs(l) \notin DOMAIN assignments}
    IN  [clauses |-> {c \in clauses : c \cap pure_literals = {}},
         assignments |->
            [v \in DOMAIN assignments \cup {Abs(l) : l \in fresh} |->
                IF v \in DOMAIN assignments THEN assignments[v] ELSE v \in fresh]]

(* choose_variable: <<>> for None, else the first unassigned variable   *)
(* the loop over self.variables meets.                                  *)
SDpChooseVariable(variables, assignments) ==
    IF variables \ DOMAIN assignments = {} THEN {<<>>}
    ELSE {<<v>> : v \in FirstOf(variables, DOMAIN assignments)}

(* unit_propagate returned True. solve() eliminates the pure literals   *)
(* and returns True when no clause or no unassigned variable is left;   *)
(* else it copies itself, adds the unit clause of the chosen variable   *)
(* to the copy and calls the copy's solve().                            *)
SDpPropagated ==
    /\ sdpPc = "for"
    /\ sdpPending = {}
    /\ ~sdpChanged
    /\ LET e == SDpPureLiteralElimination(sdpClauses, sdpAssignments)
       IN  /\ sdpAssignments' = e.assignments
           /\ \E var \in SDpChooseVariable(sdpVariables, e.assignments) :
                IF e.clauses = {} \/ var = <<>>
                THEN /\ sdpClauses' = e.clauses
                     /\ sdpPc' = "ret"
                     /\ sdpRet' = TRUE
                     /\ UNCHANGED <<sdpStack, sdpChanged>>
                ELSE /\ sdpClauses' = e.clauses \cup {{var[1]}}
                     /\ sdpStack' = Append(sdpStack,
                                       [clauses |-> e.clauses,
                                        assignments |-> e.assignments,
                                        var |-> var[1], branch |-> TRUE])
                     /\ sdpChanged' = TRUE
                     /\ UNCHANGED <<sdpPc, sdpRet>>
    /\ UNCHANGED <<sdpPending, sdpVariables, sdpResult>>
    /\ UNCHANGED <<text, encVars, dimacsVars, scdclVars, sdpllVars>>

(* The solve() of a copy came back to the instance that made the copy.  *)
(* On True the instance takes the clauses and assignments of the copy   *)
(* and returns True. On False the copy is dropped: after solver_true a  *)
(* second copy gets the negated unit clause and its solve() is called,  *)
(* after solver_false the instance returns False.                       *)
SDpCallReturns ==
    /\ sdpPc = "ret"
    /\ sdpStack # <<>>
    /\ LET f == sdpStack[Len(sdpStack)]
           below == SubSeq(sdpStack, 1, Len(sdpStack) - 1)
       IN  IF sdpRet
           THEN /\ sdpStack' = below
                /\ UNCHANGED <<sdpPc, sdpRet, sdpClauses, sdpAssignments, sdpChanged>>
           ELSE IF f.branch
           THEN /\ sdpClauses' = f.clauses \cup {{0 - f.var}}
                /\ sdpAssignments' = f.assignments
                /\ sdpStack' = Append(below, [f EXCEPT !.branch = FALSE])
                /\ sdpPc' = "for"
                /\ sdpChanged' = TRUE
                /\ UNCHANGED sdpRet
           ELSE /\ sdpClauses' = f.clauses
                /\ sdpAssignments' = f.assignments
                /\ sdpStack' = below
                /\ UNCHANGED <<sdpPc, sdpRet, sdpChanged>>
    /\ UNCHANGED <<sdpPending, sdpVariables, sdpResult>>
    /\ UNCHANGED <<text, encVars, dimacsVars, scdclVars, sdpllVars>>

(* The outermost call of solve() returns to its caller.                 *)
SDpSolveReturn ==
    /\ sdpPc = "ret"
    /\ sdpStack = <<>>
    /\ sdpPc' = "done"
    /\ sdpResult' = sdpRet
    /\ UNCHANGED <<sdpPending, sdpChanged, sdpClauses, sdpVariables,
                   sdpAssignments, sdpStack, sdpRet>>
    /\ UNCHANGED <<text, encVars, dimacsVars, scdclVars, sdpllVars>>

(* ------------------------------------------------------------------ *)
(* sudoku_dp.py, sudoku_dpll.py, sudoku_resolution.py: encode_sudoku    *)
(* and the reconstruction of the solution in solve_sudoku_*, the same   *)
(* statements in the three files                                        *)
(* ------------------------------------------------------------------ *)
(* int(n ** 0.5) *)
ISqrt(n) == CHOOSE k \in 0..n : k * k <= n /\ n < (k + 1) * (k + 1)

(* sudoku_grid[row][col], rows and columns counted from 0 *)
Cell(grid, row, col) == grid[row + 1][col + 1]

(* A variant of SudokuVar that leaves the square out of the row term.   *)
SudokuVarFlat(n, row, col, num) == row * n + col * n + num + 1

(* The variable of number num + 1 in cell (row, col).                   *)
SudokuVar(n, row, col, num) == row * n * n + col * n + num + 1

(* combinations(range(n), 2) *)
Combinations2(n) == {p \in (0..(n - 1)) \X (0..(n - 1)) : p[1] < p[2]}

(* A variant of SubgridCells that keeps the first row of the block.     *)
SubgridFirstRow(sqrt_n, subgrid_row, subgrid_col) ==
    {<<subgrid_row * sqrt_n, subgrid_col * sqrt_n + j>> : j \in 0..(sqrt_n - 1)}

(* encode_sudoku: the list cells of one subgrid.                        *)
SubgridCells(sqrt_n, subgrid_row, subgrid_col) ==
    {<<subgrid_row * sqrt_n + i, subgrid_col * sqrt_n + j>> :
        i \in 0..(sqrt_n - 1), j \in 0..(sqrt_n - 1)}

(* encode_sudoku: the clauses of the solver it returns, each loop nest  *)
(* in turn. combinations(cells, 2) gives every pair of two cells once.  *)
EncodeSudoku(sudoku_grid) ==
    LET n == Len(sudoku_grid)
        sqrt_n == ISqrt(n)
        R == 0..(n - 1)
        at_least_one ==
            {{SudokuVar(n, row, col, num) : num \in R} : row \in R, col \in R}
        cell_at_most_one ==
            {{0 - SudokuVar(n, row, col, p[1]), 0 - SudokuVar(n, row, col, p[2])} :
                row \in R, col \in R, p \in Combinations2(n)}
        row_at_most_one ==
            {{0 - SudokuVar(n, row, p[1], num), 0 - SudokuVar(n, row, p[2], num)} :
                row \in R, num \in R, p \in Combinations2(n)}
        col_at_most_one ==
            {{0 - SudokuVar(n, p[1], col, num), 0 - SudokuVar(n, p[2], col, num)} :
                col \in R, num \in R, p \in Combinations2(n)}
        subgrid_at_most_one ==
            UNION {{{0 - SudokuVar(n, p[1][1], p[1][2], num),
                     0 - SudokuVar(n, p[2][1], p[2][2], num)} :
                       p \in {q \in SubgridCells(sqrt_n, sr, sc)
                                     \X SubgridCells(sqrt_n, sr, sc) : q[1] # q[2]}} :
                   sr \in 0..(sqrt_n - 1), sc \in 0..(sqrt_n - 1), num \in R}
        pre_filled ==
            {{SudokuVar(n, row, col, Cell(sudoku_grid, row, col) - 1)} :
                <<row, col>> \in {q \in R \X R : Cell(sudoku_grid, q[1], q[2]) # 0}}
    IN  at_least_one \cup cell_at_most_one \cup row_at_most_one
        \cup col_at_most_one \cup subgrid_at_most_one \cup pre_filled

(* solve_sudoku_*, the reconstruction: the grid of zeros in which every *)
(* variable that is True writes its number into its cell, the keys of   *)
(* the dict taken in increasing order up to variable v.                 *)
RECURSIVE Reconstruct(_, _, _)
Reconstruct(n, assignments, v) ==
    IF v = 0 THEN [row \in 1..n |-> [col \in 1..n |-> 0]]
    ELSE LET before == Reconstruct(n, assignments, v - 1)
             var_idx == v - 1
             num == (var_idx % n) + 1
             col == (var_idx \div n) % n
             row == var_idx \div (n * n)
         IN  IF v \in DOMAIN assignments /\ assignments[v]
             THEN [before EXCEPT ![row + 1][col + 1] = num]
             ELSE before

(* The grids the model runs on. A filled grid of side n: the pattern    *)
(* that shifts each row, as it is or with the numbers 1 and 2           *)
(* exchanged, and then at most one cell overwritten.                    *)
PatternGrid(n) ==
    [row \in 1..n |-> [col \in 1..n |->
        ((ISqrt(n) * ((row - 1) % ISqrt(n)) + ((row - 1) \div ISqrt(n)) + (col - 1)) % n) + 1]]

Exchanged(grid) ==
    [row \in DOMAIN grid |-> [col \in DOMAIN grid |->
        IF grid[row][col] = 1 /\ Len(grid) >= 2 THEN 2
        ELSE IF grid[row][col] = 2 THEN 1 ELSE grid[row][col]]]

FilledGrids(n) ==
    UNION {{g} \cup {[g EXCEPT ![row][col] = num] : row \in 1..n, col \in 1..n, num \in 1..n} :
           g \in {PatternGrid(n), Exchanged(PatternGrid(n))}}

(* The puzzles: the pattern grid with all cells blank but a run of at   *)
(* most MaxFilled cells that follow each other in reading order.        *)
Puzzles(n) ==
    {[row \in 1..n |-> [col \in 1..n |->
         IF (row - 1) * n + (col - 1) \in first..(first + k - 1)
         THEN PatternGrid(n)[row][col] ELSE 0]] :
       first \in 0..(n * n - 1), k \in 0..MaxFilled}

(* The assignment that makes true, in every cell, the variable of the   *)
(* number the filled grid holds there, and every other variable false.  *)
AssignmentOf(grid) ==
    LET n == Len(grid)
        true_vars == {SudokuVar(n, row, col, Cell(grid, row, col) - 1) :
                         row \in 0..(n - 1), col \in 0..(n - 1)}
    IN  [v \in 1..(n * n * n) |-> v \in true_vars]

(* encode_sudoku(sudoku_grid) *)
EncodeGrid ==
    /\ encPc = "idle"
    /\ sudokuGrid # <<>>
    /\ encClauses' = EncodeSudoku(sudokuGrid)
    /\ encPc' = "encoded"
    /\ UNCHANGED <<sudokuGrid, encAssignments, solution>>
    /\ UNCHANGED <<text, dimacsVars, sudokuVars>>

(* solve_sudoku_*: solve() has returned True with one true number in    *)
(* every cell, and the solution is reconstructed from the assignments.  *)
ReconstructSolution ==
    /\ encPc = "encoded"
    /\ \E g \in FilledGrids(Len(sudokuGrid)) :
          /\ encAssignments' = AssignmentOf(g)
          /\ solution' = Reconstruct(Len(sudokuGrid), encAssignments',
                                     Len(sudokuGrid) * Len(sudokuGrid) * Len(sudokuGrid))
    /\ encPc' = "solved"
    /\ UNCHANGED <<sudokuGrid, encClauses>>
    /\ UNCHANGED <<text, dimacsVars, sudokuVars>>

RestartThresholdInit == 100

vars == <<text, dimacsVars, sudokuVars, encVars>>

(* The solvers after construction. *)
InitSolvers ==
    /\ resPc = "idle"
    /\ resInput = {}
    /\ resClauses = {}
    /\ resResult = NONE
    /\ dpPc = "idle"
    /\ dpClauses = <<>>
    /\ dpVariables = {}
    /\ dpAssignment = EmptyDict
    /\ dpPureLits = {}
    /\ dpResult = FALSE
    /\ dpReturned = <<>>
    /\ dpllPc = "idle"
    /\ dpllClauses = <<>>
    /\ dpllVariables = {}
    /\ dpllAssignment = EmptyDict
    /\ dpllUnitClauses = {}
    /\ dpllWatchList = [lit \in Lits |-> <<>>]
    /\ dpllOccurrences = [lit \in Lits |-> 0]
    /\ dpllStack = <<>>
    /\ dpllRet = NONE
    /\ dpllResult = NONE
    /\ dpllReturned = <<>>
    /\ cdclPc = "idle"
    /\ cdclClauses = <<>>
    /\ cdclVariables = {}
    /\ cdclAssignment = <<>>
    /\ cdclDecisionLevel = 0
    /\ cdclVarInfo = EmptyDict
    /\ cdclWatchList = [lit \in WatchKeys |-> <<>>]
    /\ cdclLearnedClauses = <<>>
    /\ cdclTrail = <<>>
    /\ cdclTrailLim = <<>>
    /\ cdclConflictCount = 0
    /\ cdclRestartThreshold = <<RestartThresholdInit, 1>>
    /\ cdclVarActivity = EmptyDict
    /\ cdclVarOrder = <<>>
    /\ cdclResult = FALSE
    /\ cdclReturned = <<>>
    /\ cdclAnalysis = <<>>
    /\ cdclCall = <<>>
    /\ scdclPc = "idle"
    /\ scdclSite = "initial"
    /\ scdclPending = {}
    /\ scdclChanged = FALSE
    /\ scdclClauses = {}
    /\ scdclVariables = {}
    /\ scdclAssignments = EmptyDict
    /\ scdclDecisionLevel = 0
    /\ scdclLearnedClauses = {}
    /\ scdclVariableActivity = EmptyDict
    /\ scdclResult = NONE
    /\ scdclLate = {}
    /\ sdpllPc = "idle"
    /\ sdpllPending = {}
    /\ sdpllChanged = FALSE
    /\ sdpllClauses = {}
    /\ sdpllVariables = {}
    /\ sdpllAssignments = EmptyDict
    /\ sdpllStack = <<>>
    /\ sdpllRet = NONE
    /\ sdpllResult = NONE
    /\ sdpPc = "idle"
    /\ sdpPending = {}
    /\ sdpChanged = FALSE
    /\ sdpClauses = {}
    /\ sdpVariables = {}
    /\ sdpAssignments = EmptyDict
    /\ sdpStack = <<>>
    /\ sdpRet = NONE
    /\ sdpResult = NONE

InitEncoder ==
    /\ encPc = "idle"
    /\ encClauses = {}
    /\ encAssignments = EmptyDict
    /\ solution = <<>>

Init ==
    /\ text \in Texts
    /\ InitSolvers
    /\ InitEncoder
    /\ sudokuGrid = <<>>

(* The four solvers are four scripts; a run of the repository is a run  *)
(* of one of them on the text: its main block builds the solver, has it *)
(* parse the text and calls solve. A caller that keeps the instance may *)
(* call solve on it again.                                              *)
NoneStarted ==
    /\ cdclPc = "idle" /\ dpllPc = "idle" /\ dpPc = "idle" /\ resPc = "idle"
    /\ scdclPc = "idle" /\ sdpllPc = "idle" /\ sdpPc = "idle"

CdclMain == NoneStarted /\ CdclParseDimacs
DpllMain == NoneStarted /\ DpllParseDimacs
DpMain == NoneStarted /\ DpParseDimacs
ResMain == NoneStarted /\ ResStart(FALSE)
ResCalled == NoneStarted /\ ResStart(TRUE)
SCdclRun == NoneStarted /\ SCdclAddClauses
SDpllRun == NoneStarted /\ SDpllAddClauses
SDpRun == NoneStarted /\ SDpAddClauses

Next ==
    \/ CdclMain
    \/ CdclIteration
    \/ DpllMain
    \/ DpllSolve
    \/ DpllUnitStep
    \/ DpllReturnTrue
    \/ DpllBranchTrue
    \/ DpllCallReturns
    \/ DpllSolveReturn
    \/ DpMain
    \/ DpPassContradiction
    \/ DpPassPureLiterals
    \/ DpPassSat
    \/ DpPassEliminate
    \/ ResMain
    \/ ResCalled
    \/ ResRound
    \/ CdclSolveAgain
    \/ DpllSolveAgain
    \/ DpSolveAgain

Spec == Init /\ [][Next]_vars

(* The solver classes of the Sudoku scripts: a caller builds one of     *)
(* them, adds the clauses of the text and calls solve.                  *)
NextSudoku ==
    \/ SCdclRun
    \/ SCdclListUnits
    \/ SCdclUnitStep
    \/ SCdclPropagated
    \/ SDpllRun
    \/ SDpllListUnits
    \/ SDpllUnitStep
    \/ SDpllPropagated
    \/ SDpllCallReturns
    \/ SDpllSolveReturn
    \/ SDpRun
    \/ SDpListUnits
    \/ SDpUnitStep
    \/ SDpPropagated
    \/ SDpCallReturns
    \/ SDpSolveReturn

SpecSudoku == Init /\ [][NextSudoku]_vars

(* A run of the CDCL solver alone. cdcl() is a sequential loop: at the  *)
(* head of the loop the next iteration is made, and an iteration can    *)
(* be made in every state at the head of the loop. The fairness is      *)
(* stated on what an iteration does to the position of the solver and   *)
(* to its decision level: it returns, or opens the level of a decision. *)
NextCdcl ==
    \/ CdclMain
    \/ CdclIteration

CdclMove ==
    /\ cdclPc = "loop"
    /\ \/ cdclPc' = "done" /\ cdclDecisionLevel' = cdclDecisionLevel
       \/ cdclPc' = "loop" /\ cdclDecisionLevel' = cdclDecisionLevel + 1

SpecCdclRun ==
    Init /\ [][NextCdcl]_vars /\ WF_<<cdclPc, cdclDecisionLevel>>(CdclMove)

(* A run of the Davis-Putnam solver alone. solve() is a sequential      *)
(* loop: at the head of the loop the next pass is made. The four ways   *)
(* a pass ends cover every state at the head of the loop (a             *)
(* contradiction, pure literals, no variable left, a variable to        *)
(* eliminate), so the fairness is stated on what a pass does to the     *)
(* position of the solver and to self.variables: it returns, or goes    *)
(* on with some of the variables.                                       *)
NextDp ==
    \/ DpMain
    \/ DpPassContradiction
    \/ DpPassPureLiterals
    \/ DpPassSat
    \/ DpPassEliminate

DpMove ==
    /\ dpPc = "loop"
    /\ dpPc' \in {"loop", "done"}
    /\ dpVariables' \in SUBSET dpVariables

SpecDpRun == Init /\ [][NextDp]_vars /\ WF_<<dpPc, dpVariables>>(DpMove)

(* The class CDCL with a caller that goes on after solve() has          *)
(* returned: it adds a clause and solves again, or calls backtrack.     *)
NextSudokuCaller ==
    \/ SCdclRun
    \/ SCdclListUnits
    \/ SCdclUnitStep
    \/ SCdclPropagated
    \/ SCdclSolveAgain
    \/ SCdclBacktrackCall

SpecSudokuCaller == Init /\ [][NextSudokuCaller]_vars

(* The parsers on a text one line of which lacks the terminating 0: a  *)
(* line of 1 to MaxClauseLen literals put anywhere among the lines of a *)
(* text of at most n lines.                                             *)
MalformedTexts(n) ==
    UNION {{SubSeq(t, 1, i) \o <<l>> \o SubSeq(t, i + 1, Len(t)) :
               i \in 0..Len(t), l \in ClauseBodies \ {<<>>}} :
           t \in UNION {TextsOfLen(k) : k \in 0..n}}

InitParse ==
    /\ text \in MalformedTexts(MaxClauses - 1)
    /\ InitSolvers
    /\ InitEncoder
    /\ sudokuGrid = <<>>

NextParse ==
    \/ CdclMain
    \/ DpllMain
    \/ DpMain
    \/ ResMain

SpecParse == InitParse /\ [][NextParse]_vars

(* The CDCL solver with a caller that hands a falsified clause to       *)
(* analyze_conflict or to the conflict branch of cdcl(): cdcl() itself  *)
(* never gets one from unit_propagation.                                *)
NextConflict ==
    \/ CdclMain
    \/ CdclIteration
    \/ CdclAnalyzeCall
    \/ CdclConflictCall

SpecConflict == Init /\ [][NextConflict]_vars

(* The same on texts of one or two lines that have 2 to                 *)
(* MaxClauseLen + 1 literals over NumVars + 1 variables, so that a      *)
(* learned clause can have two literals.                                *)
WideClauseBodies ==
    {c \in UNION {[1..n -> WatchKeys] : n \in 2..(MaxClauseLen + 1)} :
        \A i \in 1..(Len(c) - 1) : Abs(c[i]) < Abs(c[i + 1])}

WideTexts ==
    {<<Append(c, 0)>> : c \in WideClauseBodies}
        \cup {<<Append(q[1], 0), Append(q[2], 0)>> :
                 q \in {t \in WideClauseBodies \X WideClauseBodies : t[1] # t[2]}}

InitWide ==
    /\ text \in WideTexts
    /\ InitSolvers
    /\ InitEncoder
    /\ sudokuGrid = <<>>

SpecWatch == InitWide /\ [][NextConflict]_vars

(* The CDCL solver on a text of one unit clause, with conflicts handed  *)
(* to the conflict branch of cdcl() until the restart of line 83 has    *)
(* run twice.                                                           *)
UnitTexts == {<<<<l, 0>>>> : l \in Lits}

InitRestart ==
    /\ text \in UnitTexts
    /\ InitSolvers
    /\ InitEncoder
    /\ sudokuGrid = <<>>

NextRestart ==
    \/ CdclMain
    \/ CdclIteration
    \/ CdclConflictRun

SpecRestart == InitRestart /\ [][NextRestart]_vars

(* The CDCL solver with a caller that backtracks it between the         *)
(* iterations of cdcl(), to any level from 0 to the current one.        *)
(* The CDCL solver with a caller of assign. *)
NextEnqueue ==
    \/ CdclMain
    \/ CdclIteration
    \/ CdclAssignCall

SpecEnqueue == Init /\ [][NextEnqueue]_vars

NextBacktrack ==
    \/ CdclMain
    \/ CdclIteration
    \/ CdclBacktrackCall

SpecBacktrack == Init /\ [][NextBacktrack]_vars

(* The Sudoku scripts on a puzzle: no clause comes from a text.         *)
InitGrid ==
    /\ text = <<>>
    /\ InitSolvers
    /\ InitEncoder
    /\ sudokuGrid \in UNION {Puzzles(n) : n \in 1..MaxN}

NextGrid ==
    \/ EncodeGrid
    \/ ReconstructSolution

SpecGrid == InitGrid /\ [][NextGrid]_vars

(* The four scripts run on the same text one after the other (CDCL,     *)
(* DPLL, DP, resolution), so that one state holds the four verdicts.    *)
CdclFirst == NoneStarted /\ CdclParseDimacs
DpllSecond == cdclPc = "done" /\ dpllPc = "idle" /\ DpllParseDimacs
DpThird == dpllPc = "done" /\ dpPc = "idle" /\ DpParseDimacs
ResFourth == dpPc = "done" /\ resPc = "idle" /\ ResStart(FALSE)

NextAll ==
    \/ CdclFirst
    \/ CdclIteration
    \/ DpllSecond
    \/ DpllSolve
    \/ DpllUnitStep
    \/ DpllReturnTrue
    \/ DpllBranchTrue
    \/ DpllCallReturns
    \/ DpllSolveReturn
    \/ DpThird
    \/ DpPassContradiction
    \/ DpPassPureLiterals
    \/ DpPassSat
    \/ DpPassEliminate
    \/ ResFourth
    \/ ResRound

SpecAll == Init /\ [][NextAll]_vars

(* ------------------------------------------------------------------ *)
(* Properties                                                           *)
(* ------------------------------------------------------------------ *)
(* The formula a text denotes, one clause per line; a line that holds   *)
(* only the terminating 0 denotes the empty clause.                     *)
TextFormula == {Range(ParseLine(text[i])) : i \in DOMAIN text}
HasEmptyClauseLine == \E i \in DOMAIN text : text[i] = EmptyClauseLine
EmptyFormula == ParseClauses(text) = <<>> /\ ParseVariables(text) = {}

(* The literal l is true under a dict from variables to booleans.       *)
TrueUnder(a, l) == Abs(l) \in DOMAIN a /\ a[Abs(l)] = (l > 0)

(* C1: on a CNF without an empty clause, once the four strategies have  *)
(* returned, CDCLSolver.solve, DPLLSolver.solve, the DP Solver.solve    *)
(* and resolution_solver gave the same verdict.                         *)
C1_SameVerdict ==
    (/\ cdclPc = "done" /\ dpllPc = "done" /\ dpPc = "done" /\ resPc = "done"
     /\ ~HasEmptyClauseLine)
    => /\ cdclResult = dpllResult
       /\ dpllResult = dpResult
       /\ dpResult = resResult

(* C2: when cdcl() has returned True, every variable of the formula is  *)
(* assigned and every clause of self.clauses has a literal that is true *)
(* under self.assignment (the literal is the one assign recorded).      *)
C2_CdclTrueIsModel ==
    (cdclPc = "done" /\ cdclResult = TRUE)
    => /\ \A v \in cdclVariables :
              InSeq(v, cdclAssignment) \/ InSeq(0 - v, cdclAssignment)
       /\ \A i \in DOMAIN cdclClauses :
              \E l \in Range(cdclClauses[i]) : InSeq(l, cdclAssignment)

(* C3: on an unsatisfiable CNF cdcl() returns False; and whenever it    *)
(* returns False a conflict was counted and the decision level is 0.    *)
C3_CdclUnsatReturnsFalse ==
    cdclPc = "done"
    => /\ ~Satisfiable(ClauseSets(cdclClauses)) => cdclResult = FALSE
       /\ cdclResult = FALSE => (cdclConflictCount > 0 /\ cdclDecisionLevel = 0)

(* C4: on a CNF without an empty clause, the DP Solver.solve returns    *)
(* True if and only if the formula is satisfiable.                      *)
C4_DpDecides ==
    (dpPc = "done" /\ ~HasEmptyClauseLine)
    => (dpResult = TRUE <=> Satisfiable(TextFormula))

(* C5: when DPLLSolver.dpll has returned True, every clause of the      *)
(* input has a literal whose variable self.assignment maps to the sign  *)
(* of the literal.                                                      *)
C5_DpllTrueIsModel ==
    (dpllPc = "done" /\ dpllResult = TRUE)
    => \A i \in DOMAIN dpllClauses :
           \E l \in Range(dpllClauses[i]) : TrueUnder(dpllAssignment, l)

(* C6: called with a set of non-empty clauses, resolution_solver        *)
(* returns False if and only if the set is unsatisfiable (the empty     *)
(* clause is derivable), and returns True exactly when the round of     *)
(* pairwise resolution it just made added no new clause.                *)
C6_ResolutionDecides ==
    (resPc = "done" /\ \A c \in resInput : ~IsEmpty(c))
    => /\ (resResult = FALSE) <=> ~Satisfiable(resInput)
       /\ (resResult = TRUE) <=> (RoundResolvents(resClauses) \subseteq resClauses)

(* C6, its case: an unsatisfiable set on which the empty clause came    *)
(* only after a round that added clauses.                               *)
C6_Witness ==
    /\ resPc = "done"
    /\ resResult = FALSE
    /\ \A c \in resInput : ~IsEmpty(c)
    /\ resClauses # resInput

(* C7: on the two unit clauses {l} and {not l}, cdcl() pushes no        *)
(* decision (trail_lim stays empty) and returns UNSAT at level 0.       *)
C7_ComplementaryUnits ==
    (\E l \in Lits : cdclClauses = <<<<l>>, <<0 - l>>>>)
    => /\ cdclTrailLim = <<>>
       /\ cdclPc = "done" => (cdclResult = FALSE /\ cdclDecisionLevel = 0)

(* C8: when cdcl() has returned True, the literal of every unit clause  *)
(* {l} of the input is assigned at decision level 0; on the formula     *)
(* that is the single unit clause {l} it returns True with var(l) set   *)
(* to the sign of l.                                                    *)
C8_UnitAtLevelZero ==
    cdclPc = "done"
    => /\ cdclResult = TRUE
          => \A i \in DOMAIN cdclClauses :
                 Len(cdclClauses[i]) = 1
                 => /\ InSeq(cdclClauses[i][1], cdclAssignment)
                    /\ Abs(cdclClauses[i][1]) \in DOMAIN cdclVarInfo
                    /\ cdclVarInfo[Abs(cdclClauses[i][1])][1] = 0
       /\ (Len(cdclClauses) = 1 /\ Len(cdclClauses[1]) = 1)
          => (cdclResult = TRUE /\ cdclAssignment = <<cdclClauses[1][1]>>)

(* C9: a formula with the empty clause is reported UNSAT: by each       *)
(* DIMACS solver given a line that holds only the terminating 0, and by *)
(* resolution_solver called with a set that contains Clause([]).        *)
C9_EmptyClauseIsUnsat ==
    /\ (cdclPc = "done" /\ HasEmptyClauseLine) => cdclResult = FALSE
    /\ (dpllPc = "done" /\ HasEmptyClauseLine) => dpllResult = FALSE
    /\ (dpPc = "done" /\ HasEmptyClauseLine) => dpResult = FALSE
    /\ (resPc = "done" /\ (HasEmptyClauseLine \/ \E c \in resInput : IsEmpty(c)))
       => resResult = FALSE

(* C10: on the empty formula (no clause, no variable) every solver      *)
(* that has returned answered SAT, no solver raised or hung, and the    *)
(* assignment it holds is empty.                                        *)
C10_EmptyFormulaSat ==
    EmptyFormula
    => /\ cdclPc \in {"idle", "loop", "done"}
       /\ cdclPc = "done" => (cdclResult = TRUE /\ cdclAssignment = <<>>)
       /\ dpllPc = "done" => (dpllResult = TRUE /\ dpllAssignment = EmptyDict)
       /\ dpPc = "done" => (dpResult = TRUE /\ dpAssignment = EmptyDict)
       /\ (resPc = "done" /\ resInput = {}) => resResult = TRUE

(* C10, its case: the four solvers have returned on the empty formula.  *)
C10_Witness ==
    /\ EmptyFormula
    /\ cdclPc = "done" /\ dpllPc = "done" /\ dpPc = "done" /\ resPc = "done"
    /\ cdclClauses = <<>> /\ dpllClauses = <<>> /\ resInput = {}

(* C11: every call of solve() on a solver instance returns the verdict  *)
(* the first call on that instance returned.                            *)
C11_SecondSolveSameVerdict ==
    /\ \A i \in DOMAIN cdclReturned : cdclReturned[i] = cdclReturned[1]
    /\ \A i \in DOMAIN dpllReturned : dpllReturned[i] = dpllReturned[1]
    /\ \A i \in DOMAIN dpReturned : dpReturned[i] = dpReturned[1]

(* C12: when the CDCL.solve of sudoku_dpll.py has returned True on      *)
(* clauses none of which is empty, every clause that was added has a    *)
(* literal whose variable self.assignments gives the value of its sign. *)
C12_SudokuCdclTrueIsModel ==
    (scdclPc = "done" /\ scdclResult = TRUE /\ ~HasEmptyClauseLine)
    => \A c \in AddedClauses :
           \E l \in c : /\ Abs(l) \in DOMAIN scdclAssignments
                        /\ scdclAssignments[Abs(l)].value = (l > 0)

(* C13: when the DPLL.solve of sudoku_resolution.py has returned on a   *)
(* satisfiable set of added clauses none of which is empty, it has      *)
(* returned True.                                                       *)
C13_SudokuDpllSatReturnsTrue ==
    (sdpllPc = "done" /\ ~HasEmptyClauseLine /\ Satisfiable(AddedClauses))
    => sdpllResult = TRUE

(* C14: when the DavisPutnam.solve of sudoku_dp.py has returned on      *)
(* added clauses none of which is empty, it has returned True exactly   *)
(* when the clauses are satisfiable, and when it has returned True      *)
(* every added clause holds a literal that self.assignments makes true. *)
C14_SudokuDpDecidesWithModel ==
    (sdpPc = "done" /\ ~HasEmptyClauseLine)
    => /\ sdpResult = Satisfiable(AddedClauses)
       /\ sdpResult => \A c \in AddedClauses :
                           \E l \in c : TrueUnder(sdpAssignments, l)

(* solve() has returned True on at least two clauses, none empty, that  *)
(* no unit propagation and no pure literal could settle.                *)
C14_Witness ==
    /\ sdpPc = "done"
    /\ sdpResult = TRUE
    /\ ~HasEmptyClauseLine
    /\ Cardinality(AddedClauses) >= 2
    /\ UnitClauses(AddedClauses) = {}
    /\ SDpPureLiterals(AddedClauses) = {}

(* The reading of a grid as a Sudoku: two cells see each other when     *)
(* they differ and share a row, a column or a block of side ISqrt(n).   *)
SeeEachOther(n, r1, c1, r2, c2) ==
    /\ <<r1, c1>> # <<r2, c2>>
    /\ \/ r1 = r2
       \/ c1 = c2
       \/ /\ r1 \div ISqrt(n) = r2 \div ISqrt(n)
          /\ c1 \div ISqrt(n) = c2 \div ISqrt(n)

ValidCompletion(g, puzzle) ==
    LET n == Len(puzzle)
        R == 0..(n - 1)
    IN  /\ \A r \in R, c \in R : Cell(g, r, c) \in 1..n
        /\ \A r1 \in R, c1 \in R, r2 \in R, c2 \in R :
              SeeEachOther(n, r1, c1, r2, c2) => Cell(g, r1, c1) # Cell(g, r2, c2)
        /\ \A r \in R, c \in R :
              Cell(puzzle, r, c) # 0 => Cell(g, r, c) = Cell(puzzle, r, c)

(* The clauses the encoding is said to consist of. *)
StatedClauses(puzzle) ==
    LET n == Len(puzzle)
        R == 0..(n - 1)
        V(r, c, m) == r * n * n + c * n + m + 1
    IN  {{V(r, c, m) : m \in R} : r \in R, c \in R}
        \cup {{0 - V(r, c, q[1]), 0 - V(r, c, q[2])} :
                 r \in R, c \in R, q \in {t \in R \X R : t[1] # t[2]}}
        \cup {{0 - V(q[1], q[2], m), 0 - V(q[3], q[4], m)} :
                 m \in R,
                 q \in {t \in R \X R \X R \X R : SeeEachOther(n, t[1], t[2], t[3], t[4])}}
        \cup {{V(q[1], q[2], Cell(puzzle, q[1], q[2]) - 1)} :
                 q \in {t \in R \X R : Cell(puzzle, t[1], t[2]) # 0}}

(* C15: for every row, col and num below the side n of the grid the     *)
(* variable of (row, col, num) lies in 1..n^3, the n^3 triples have n^3 *)
(* different variables, and the solution reconstructed from an          *)
(* assignment in which that variable is True holds num + 1 in cell      *)
(* (row, col).                                                          *)
C15_VariableCodingRoundTrips ==
    encPc = "solved" =>
        LET n == Len(sudokuGrid)
            R == 0..(n - 1)
        IN  /\ \A row \in R, col \in R, num \in R :
                  /\ SudokuVar(n, row, col, num) \in 1..(n * n * n)
                  /\ encAssignments[SudokuVar(n, row, col, num)]
                        => Cell(solution, row, col) = num + 1
            /\ Cardinality({SudokuVar(n, t[1], t[2], t[3]) : t \in R \X R \X R})
                  = n * n * n

(* A solution was reconstructed in which the last variable of a grid of *)
(* side 3 or more is True and a cell holds a number the pattern does    *)
(* not put there.                                                       *)
C15_Witness ==
    /\ encPc = "solved"
    /\ Len(sudokuGrid) >= 3
    /\ encAssignments[Len(sudokuGrid) * Len(sudokuGrid) * Len(sudokuGrid)]
    /\ solution # PatternGrid(Len(sudokuGrid))

(* C16: on a grid whose side is a perfect square, the clauses of the    *)
(* solver encode_sudoku returns are the at-least-one clause of every    *)
(* cell, the binary clauses of two negated variables for two numbers in *)
(* one cell and for one number in two cells of a row, a column or a     *)
(* block, and the unit clause of every pre-filled cell; and an          *)
(* assignment with one true number per cell satisfies them all exactly  *)
(* when its grid is a valid completion of the puzzle. The clauses are   *)
(* compared when encode_sudoku has returned; nothing changes them later.*)
C16_EncodingIsSudoku ==
    (ISqrt(Len(sudokuGrid)) * ISqrt(Len(sudokuGrid)) = Len(sudokuGrid))
    => /\ encPc = "encoded" => encClauses = StatedClauses(sudokuGrid)
       /\ encPc = "solved" =>
             ((\A c \in encClauses : \E l \in c : encAssignments[Abs(l)] = (l > 0))
              <=> ValidCompletion(solution, sudokuGrid))

(* A 4 x 4 puzzle with a pre-filled cell, encoded, and an assignment    *)
(* that satisfies every clause.                                         *)
C16_Witness ==
    /\ encPc = "solved"
    /\ Len(sudokuGrid) = 4
    /\ \E r \in 0..3, c \in 0..3 : Cell(sudokuGrid, r, c) # 0
    /\ \A c \in encClauses : \E l \in c : encAssignments[Abs(l)] = (l > 0)

(* The lines of a text that end with the terminating 0, and the other  *)
(* lines.                                                               *)
Terminated(line) == line[Len(line)] = 0
TerminatedLines(t) == SelectSeq(t, Terminated)

(* How many entries of the list s equal x. *)
Occurrences(s, x) == Cardinality({k \in DOMAIN s : s[k] = x})

(* C18: after parse_dimacs has read a text with a line that lacks the   *)
(* terminating 0, the clause list holds no clause made of only some of  *)
(* the literals of that line beyond those the other lines give, and     *)
(* self.variables holds no variable that only that line names.          *)
C18_NoPartialClause ==
    \A i \in DOMAIN text :
        ~Terminated(text[i]) =>
            LET good == TerminatedLines(text)
                partial(c) == c # {} /\ c \subseteq Range(text[i]) /\ c # Range(text[i])
                clean(clauses, variables) ==
                    /\ \A j \in DOMAIN clauses :
                          partial(Range(clauses[j]))
                          => Occurrences(clauses, clauses[j])
                               <= Occurrences(ParseClauses(good), clauses[j])
                    /\ variables \subseteq ParseVariables(good)
            IN  /\ cdclPc # "idle" => clean(cdclClauses, cdclVariables)
                /\ dpPc # "idle" => clean(dpClauses, dpVariables)
                /\ dpllPc # "idle" => clean(dpllClauses, dpllVariables)
                /\ resPc # "idle" =>
                      \A c \in resInput : partial(c) => c \in ResParseDimacs(good)

(* A clause under the literals that hold: every literal false, or every *)
(* literal false but one that is unassigned. trueLits: the literals     *)
(* assigned True.                                                       *)
Falsified(clause, trueLits) == \A l \in Range(clause) : (0 - l) \in trueLits
IsUnit(clause, trueLits) ==
    \E u \in Range(clause) :
        /\ u \notin trueLits /\ (0 - u) \notin trueLits
        /\ \A l \in Range(clause) \ {u} : (0 - l) \in trueLits

(* What a call of unit_propagation on the fields st leaves when it      *)
(* returns None: no clause of the database is unit or falsified.        *)
FixpointAfter(up) ==
    up.kind = "none" =>
        \A i \in DOMAIN up.st.clauses :
            /\ ~IsUnit(up.st.clauses[i], Range(up.st.assignment))
            /\ ~Falsified(up.st.clauses[i], Range(up.st.assignment))

(* C19: at the top of every iteration of the loop of cdcl(), the call   *)
(* of unit_propagation that the iteration makes, when it returns None,  *)
(* leaves an assignment under which no clause is unit and no clause is  *)
(* falsified.                                                           *)
C19_PropagationFixpoint ==
    cdclPc = "loop" => FixpointAfter(CdclUnitPropagation(CdclState, MaxRounds))

(* C20: after analyze_conflict has chosen a UIP for a conflict above    *)
(* level 0 and backtrack has gone to the level returned, the clause     *)
(* returned holds the negation of the UIP literal, every literal of it  *)
(* was false under the trail of the call, and under the trail left the  *)
(* negated UIP is unassigned and every other literal of it is false.    *)
C20_LearnedClauseAsserting ==
    (cdclPc = "analysed" /\ cdclAnalysis[1].uip # <<>>) =>
        LET a == cdclAnalysis[1]
            uip_lit == CHOOSE l \in Range(a.trail) : Abs(l) = a.uip[1]
            learned == Range(a.learned_clause)
        IN  /\ (0 - uip_lit) \in learned
            /\ \A l \in learned : InSeq(0 - l, a.trail)
            /\ ~InSeq(uip_lit, cdclTrail) /\ ~InSeq(0 - uip_lit, cdclTrail)
            /\ \A l \in learned \ {0 - uip_lit} : InSeq(0 - l, cdclTrail)

(* A total assignment is the set of the variables it makes true.        *)
HoldsIn(clause, m) ==
    \E l \in Range(clause) : IF l > 0 THEN l \in m ELSE (0 - l) \notin m

ConflictHandled ==
    /\ cdclCall # <<>>
    /\ cdclCall[1].name = "conflict"
    /\ cdclCall[1].st.decision_level > 0
    /\ CdclUip(cdclCall[1].st, cdclCall[1].conflict_clause) # <<>>

(* C22: the level analyze_conflict returns is the highest decision      *)
(* level among the literals of the learned clause other than the        *)
(* negated UIP, 0 when there is none, and it is below the level of the  *)
(* conflict.                                                            *)
C22_BackjumpLevel ==
    ConflictHandled =>
        LET st == cdclCall[1].st
            an == CdclAnalyzeConflict(st, cdclCall[1].conflict_clause)
            uip == CdclUip(st, cdclCall[1].conflict_clause)[1]
            others == {Abs(l) : l \in Range(an.learned_clause)} \ {uip}
        IN  /\ an.backtrack_level =
                  IF others = {} THEN 0
                  ELSE SetMax({st.var_info[v][1] : v \in others})
            /\ an.backtrack_level < st.decision_level

C25_TrailLimMatchesLevels ==
    /\ Len(cdclTrailLim) = cdclDecisionLevel
    /\ \A i, j \in DOMAIN cdclTrailLim : i < j => cdclTrailLim[i] <= cdclTrailLim[j]
    /\ \A k \in DOMAIN cdclTrailLim :
          /\ cdclTrailLim[k] < Len(cdclTrail)
          /\ LET var == Abs(cdclTrail[cdclTrailLim[k] + 1])
             IN  var \in DOMAIN cdclVarInfo /\ cdclVarInfo[var] = <<k, <<>>>>

(* Two decisions are on the trail. *)
C25_Witness ==
    /\ cdclPc = "loop"
    /\ cdclDecisionLevel >= 2
    /\ Len(cdclTrailLim) = cdclDecisionLevel
    /\ cdclVarInfo[Abs(cdclTrail[cdclTrailLim[2] + 1])] = <<2, <<>>>>

(* The step just taken was a call of backtrack(level).                  *)
Backtracked == cdclCall # <<>> /\ cdclCall[1].name = "backtrack"

(* C26: after backtrack(level) with 0 <= level <= decision_level the    *)
(* call has returned, decision_level is level, trail_lim has level      *)
(* entries, the trail is cut to the length recorded when level + 1 was  *)
(* pushed, and every literal taken off the trail is no key of           *)
(* assignment and its variable no key of var_info.                      *)
C26_BacktrackUndoes ==
    Backtracked =>
        LET st == cdclCall[1].st
            level == cdclCall[1].level
            kept == IF level < st.decision_level
                    THEN st.trail_lim[level + 1] ELSE Len(st.trail)
        IN  /\ cdclPc = "loop"
            /\ cdclDecisionLevel = level
            /\ Len(cdclTrailLim) = level
            /\ cdclTrail = SubSeq(st.trail, 1, kept)
            /\ \A i \in (kept + 1)..Len(st.trail) :
                  /\ ~InSeq(st.trail[i], cdclAssignment)
                  /\ Abs(st.trail[i]) \notin DOMAIN cdclVarInfo

(* backtrack(1) was called at level 2 or above. *)
C26_Witness ==
    /\ Backtracked
    /\ cdclCall[1].level = 1
    /\ cdclCall[1].st.decision_level >= 2
    /\ Len(cdclTrail) = cdclCall[1].st.trail_lim[2]
    /\ Len(cdclTrail) < Len(cdclCall[1].st.trail)

(* C27: backtrack(level) leaves clauses, learned_clauses, watch_list    *)
(* and the other fields it does not undo as they were, and every        *)
(* variable assigned at a level up to the target keeps its literal on   *)
(* the trail and in assignment and keeps its level and antecedent.      *)
C27_BacktrackFrame ==
    Backtracked =>
        LET st == cdclCall[1].st
            level == cdclCall[1].level
        IN  /\ cdclWatchList = st.watch_list
            /\ cdclClauses = st.clauses
            /\ cdclLearnedClauses = st.learned_clauses
            /\ cdclVariables = st.variables
            /\ cdclVarOrder = st.var_order
            /\ cdclVarActivity = st.var_activity
            /\ cdclConflictCount = st.conflict_count
            /\ cdclRestartThreshold = st.restart_threshold
            /\ \A l \in Range(st.trail) :
                  st.var_info[Abs(l)][1] <= level =>
                      /\ InSeq(l, cdclTrail)
                      /\ InSeq(l, cdclAssignment)
                      /\ Abs(l) \in DOMAIN cdclVarInfo
                      /\ cdclVarInfo[Abs(l)] = st.var_info[Abs(l)]

(* backtrack(1) at level 2 or above kept the literal of level 1 and a   *)
(* watched clause.                                                      *)
C27_Witness ==
    /\ Backtracked
    /\ cdclCall[1].level = 1
    /\ cdclCall[1].st.decision_level >= 2
    /\ cdclTrail # <<>>
    /\ cdclVarInfo[Abs(cdclTrail[1])] = <<1, <<>>>>
    /\ \E l \in Lits : cdclWatchList[l] # <<>>

(* C28: a decision on a variable that was not assigned before assigns   *)
(* it False. Without a backtrack every decision is the first one on its *)
(* variable, so every decision literal on the trail is negative.        *)
C28_FirstDecisionFalse ==
    \A k \in DOMAIN cdclTrailLim :
        cdclTrailLim[k] < Len(cdclTrail) => cdclTrail[cdclTrailLim[k] + 1] < 0

(* C29: assign on a literal whose variable is assigned already changes  *)
(* neither assignment nor the trail nor var_info, whether the value     *)
(* agrees or not, and assignment never holds a literal and its          *)
(* negation.                                                            *)
C29_EnqueueOnAssigned ==
    (/\ cdclCall # <<>>
     /\ cdclCall[1].name = "assign"
     /\ \E l \in Range(cdclCall[1].st.assignment) : Abs(l) = cdclCall[1].var) =>
        /\ cdclAssignment = cdclCall[1].st.assignment
        /\ cdclTrail = cdclCall[1].st.trail
        /\ cdclVarInfo = cdclCall[1].st.var_info
        /\ \A l \in Range(cdclAssignment) : ~InSeq(0 - l, cdclAssignment)

Unassigned == {v \in cdclVariables : \A l \in Range(cdclAssignment) : Abs(l) # v}

(* C31: select_variable returns None exactly when every variable is     *)
(* assigned, with either polarity; else it returns an unassigned         *)
(* variable of the highest activity among the unassigned ones, the       *)
(* lowest of those that share that activity.                             *)
C31_SelectVariable ==
    cdclPc \in {"loop", "assigned"} =>
        LET r == CdclSelectVariable(CdclState)
        IN  /\ (r = <<>>) <=> (Unassigned = {})
            /\ r # <<>> =>
                  /\ r[1] \in Unassigned
                  /\ \A v \in Unassigned :
                        /\ FracGeq(cdclVarActivity[r[1]], cdclVarActivity[v])
                        /\ FracGeq(cdclVarActivity[v], cdclVarActivity[r[1]]) => r[1] <= v

Tautological(c) == \E lit \in Range(c) : Negate(lit) \in Range(c)

(* C33: the elimination of v replaces the clauses that contain v or -v  *)
(* by exactly the non-tautological resolvents on v: the clauses the     *)
(* step produces hold no literal together with its negation, they are   *)
(* the resolvents of a clause with v and a clause with -v that are not  *)
(* tautological, and the clauses that do not mention v follow them      *)
(* unchanged.                                                           *)
C33_EliminationResolvents ==
    [][DpPassEliminate =>
        LET p == DpPropagateLoop(dpClauses, dpAssignment)
            v == CHOOSE x \in dpVariables : x \notin dpVariables'
            with == Range(SelectSeq(p.clauses, LAMBDA c : InSeq(v, c)))
            against == Range(SelectSeq(p.clauses, LAMBDA c : InSeq(Negate(v), c)))
            kept == SelectSeq(p.clauses,
                        LAMBDA c : ~InSeq(v, c) /\ ~InSeq(Negate(v), c))
            made == Len(dpClauses') - Len(kept)
            resolvents == {DpResolvent(pc_nc[1], pc_nc[2], v) :
                              pc_nc \in with \X against}
        IN  /\ made >= 0
            /\ SubSeq(dpClauses', made + 1, Len(dpClauses')) = kept
            /\ \A i \in 1..made : ~Tautological(dpClauses'[i])
            /\ {dpClauses'[i] : i \in 1..made}
                  = {r \in resolvents : ~Tautological(r)}
    ]_vars

(* C34: when the propagation loop of dpll() has ended without conflict  *)
(* (the set of unit literals is empty and dpll() goes on to the pure    *)
(* literals), no clause has all its literals false but a single         *)
(* unassigned one.                                                      *)
C34_DpllPropagationComplete ==
    (dpllPc = "prop" /\ dpllUnitClauses = {}) =>
        \A i \in DOMAIN dpllClauses :
            LET clause == dpllClauses[i]
                open == {l \in Range(clause) : Abs(l) \notin DOMAIN dpllAssignment}
            IN  ~ /\ Cardinality(open) = 1
                  /\ \A l \in Range(clause) \ open : ~DpllLitTrue(dpllAssignment, l)

(* C35: the clauses handed to add_clause are not destroyed by the       *)
(* search: after backtrack(b) a clause is absent or shortened only on   *)
(* account of the assignments that are left. Every clause that was      *)
(* added either holds a literal that is still assigned true, or is      *)
(* present with all its literals but some that are still assigned       *)
(* false.                                                               *)
C35_BacktrackRestoresClauses ==
    scdclPc = "backtracked" =>
        \A c \in AddedClauses \cup scdclLate :
            LET a == scdclAssignments
                stillTrue == {l \in c : Abs(l) \in DOMAIN a /\ a[Abs(l)].value = (l > 0)}
                stillFalse == {l \in c : Abs(l) \in DOMAIN a /\ a[Abs(l)].value # (l > 0)}
            IN  \/ stillTrue # {}
                \/ \E d \in scdclClauses : (c \ stillFalse) \subseteq d /\ d \subseteq c

(* C36: cdcl() terminates on every text: once parse_dimacs has built    *)
(* the solver and the driver loop runs, it eventually returns True or   *)
(* False. At the head of the loop the iteration that is made returns   *)
(* or opens one more decision level, and the loop leads to the return.  *)
C36_CdclTerminates ==
    /\ [](cdclPc = "loop" =>
            LET r == CdclAfterPropagation(CdclUnitPropagation(CdclState, MaxRounds))
            IN  \/ r.kind \in {"true", "false"}
                \/ /\ r.kind = "ok"
                   /\ r.st.decision_level = cdclDecisionLevel + 1)
    /\ (cdclPc = "loop") ~> (cdclPc = "done" /\ Len(cdclReturned) = 1)

(* cdcl() has returned after a run of its loop that made decisions.     *)
C36_Witness ==
    /\ cdclPc = "done"
    /\ Len(cdclReturned) = 1
    /\ cdclDecisionLevel >= 1

(* The variables that occur in a list of clauses.                       *)
VariablesOf(clauses) ==
    {Abs(l) : l \in UNION {Range(clauses[i]) : i \in DOMAIN clauses}}

(* C37: solve() of the Davis-Putnam solver terminates on every text.    *)
(* At the head of the outer loop a pass can be made, each pass either   *)
(* returns or takes at least one variable out of self.variables, the    *)
(* variables that occur in self.clauses are always among                *)
(* self.variables, and the loop eventually returns.                     *)
C37_DpTerminates ==
    /\ [](dpPc = "loop" =>
            LET p == DpPropagateLoop(dpClauses, dpAssignment)
                pure == DpFindPureLiterals(p.clauses)
                q == DpApplyPureLiterals(p.clauses, dpVariables, p.assignment, pure)
            IN  \/ p.contradiction
                \/ pure # {} /\ q.variables \subseteq dpVariables
                             /\ q.variables # dpVariables
                \/ pure = {} /\ dpVariables = {}
                \/ pure = {} /\ FirstOf(dpVariables, {}) # {}
                             /\ FirstOf(dpVariables, {}) \subseteq dpVariables)
    /\ [][DpPass => \/ dpPc' = "done"
                    \/ (dpVariables' \subseteq dpVariables /\ dpVariables' # dpVariables)]_vars
    /\ [](VariablesOf(dpClauses) \subseteq dpVariables)
    /\ (dpPc = "loop") ~> (dpPc = "done" /\ Len(dpReturned) = 1)

(* solve() has returned after passes that took variables out, by pure  *)
(* literals and by elimination, and clauses were left at the end.       *)
C37_Witness ==
    /\ dpPc = "done"
    /\ Len(dpReturned) = 1
    /\ dpVariables = {}
    /\ ParseVariables(text) # {}
    /\ dpClauses # <<>>

(* C38: when the call of solve() made for the True branch of a decision *)
(* returns False, the branch is undone before the other polarity is     *)
(* tried: the step that restores the clauses and assigns the variable   *)
(* False leaves self.assignments with the entries it had before the     *)
(* decision and the entry of the decision variable, none made inside    *)
(* the failed call.                                                     *)
C38_FailedBranchUndone ==
    [][(/\ sdpllPc = "ret"
        /\ sdpllStack # <<>>
        /\ sdpllStack[Len(sdpllStack)].branch
        /\ sdpllRet = FALSE
        /\ sdpllPc' = "for")
       => DOMAIN sdpllAssignments' \subseteq
              sdpllStack[Len(sdpllStack)].assigned
                  \cup {sdpllStack[Len(sdpllStack)].literal}]_vars

====
